---------------------------- MODULE Spec2Model ----------------------------
(***************************************************************************)
(* A model of src/scrap_all.py (CarValuationBot): the plate recogniser     *)
(* detect_license_plate, the valuation call get_valuation and the          *)
(* orchestrator process_cars, plus the two listing extractors.             *)
(*                                                                         *)
(* Program strings whose content matters (OCR text, plates, titles,        *)
(* prices) are sequences of one-character strings; a sentinel such as      *)
(* "Failed" is the one-element sequence holding it.  Python's None is the  *)
(* empty sequence, which is falsy exactly like None and ''.                *)
(***************************************************************************)
EXTENDS Integers, Sequences, FiniteSets, TLC

-----------------------------------------------------------------------------
(* Characters and Python string helpers                                    *)

None == <<>>

Truthy(s) == s # None

UpperAlphabet ==
    <<"A", "B", "C", "D", "E", "F", "G", "H", "I", "J", "K", "L", "M",
      "N", "O", "P", "Q", "R", "S", "T", "U", "V", "W", "X", "Y", "Z">>
LowerAlphabet ==
    <<"a", "b", "c", "d", "e", "f", "g", "h", "i", "j", "k", "l", "m",
      "n", "o", "p", "q", "r", "s", "t", "u", "v", "w", "x", "y", "z">>
UpperLetters == {UpperAlphabet[i] : i \in 1..Len(UpperAlphabet)}
LowerLetters == {LowerAlphabet[i] : i \in 1..Len(LowerAlphabet)}
Digits == {"0", "1", "2", "3", "4", "5", "6", "7", "8", "9"}
\* \s of Python's re module, and what str.strip() strips
Whitespace == {" ", "\t", "\n", "\r"}
\* \w of Python's re module
WordChars == UpperLetters \cup LowerLetters \cup Digits \cup {"_"}

UpperChar(c) ==
    IF c \in LowerLetters
    THEN UpperAlphabet[CHOOSE i \in 1..Len(LowerAlphabet) : LowerAlphabet[i] = c]
    ELSE c

LowerChar(c) ==
    IF c \in UpperLetters
    THEN LowerAlphabet[CHOOSE i \in 1..Len(UpperAlphabet) : UpperAlphabet[i] = c]
    ELSE c

\* str.upper()
Upper(s) == [i \in 1..Len(s) |-> UpperChar(s[i])]

\* str.lower()
Lower(s) == [i \in 1..Len(s) |-> LowerChar(s[i])]

\* str.replace(old, new) for a one-character old
ReplaceChar(s, old, new) == [i \in 1..Len(s) |-> IF s[i] = old THEN new ELSE s[i]]

\* str.replace(old, '') for a one-character old
RECURSIVE RemoveChar(_, _)
RemoveChar(s, old) ==
    IF s = <<>> THEN <<>>
    ELSE IF Head(s) = old THEN RemoveChar(Tail(s), old)
         ELSE <<Head(s)>> \o RemoveChar(Tail(s), old)

\* str.strip(): leading and trailing whitespace removed, inner whitespace kept
RECURSIVE LStrip(_)
LStrip(s) ==
    IF s # <<>> /\ Head(s) \in Whitespace THEN LStrip(Tail(s)) ELSE s

RECURSIVE RStrip(_)
RStrip(s) ==
    IF s # <<>> /\ s[Len(s)] \in Whitespace
    THEN RStrip(SubSeq(s, 1, Len(s) - 1)) ELSE s

Strip(s) == RStrip(LStrip(s))

-----------------------------------------------------------------------------
(* A backtracking matcher for the regular expressions of the source.  A    *)
(* pattern is a sequence of items:                                         *)
(*   [t |-> "wb"]                       \b                                 *)
(*   [t |-> "cls", cs, lo, hi]          a character class, greedy {lo,hi}  *)
(*   [t |-> "alt", lits]                (?:lit1|lit2|...), tried in order  *)
(*   [t |-> "grp", sub, lo, hi]         (?:sub){lo,hi}, greedy, sub a      *)
(*                                      pattern of fixed-length items      *)
(* MatchEnd gives the position after the match that re finds first         *)
(* starting at pos, or 0 when there is none.                               *)

NoMatch == 0

IsWordAt(text, i) == i >= 1 /\ i <= Len(text) /\ text[i] \in WordChars

\* \b at position pos (between text[pos-1] and text[pos])
AtWordBoundary(text, pos) == IsWordAt(text, pos - 1) # IsWordAt(text, pos)

RECURSIVE RunLength(_, _, _, _)
\* how many characters of cs follow from pos, at most hi
RunLength(text, pos, cs, hi) ==
    IF hi = 0 \/ pos > Len(text) \/ text[pos] \notin cs THEN 0
    ELSE 1 + RunLength(text, pos + 1, cs, hi - 1)

HasPrefixAt(text, pos, lit) ==
    /\ pos + Len(lit) - 1 <= Len(text)
    /\ \A i \in 1..Len(lit) : text[pos + i - 1] = lit[i]

RECURSIVE MatchEnd(_, _, _, _), TryCount(_, _, _, _, _), TryAlt(_, _, _, _, _),
          TryGroup(_, _, _, _, _)
MatchEnd(pat, k, text, pos) ==
    IF k > Len(pat) THEN pos
    ELSE LET it == pat[k] IN
         CASE it.t = "wb" ->
                IF AtWordBoundary(text, pos) THEN MatchEnd(pat, k + 1, text, pos)
                ELSE NoMatch
           [] it.t = "cls" ->
                LET n == RunLength(text, pos, it.cs, it.hi) IN
                IF n < it.lo THEN NoMatch ELSE TryCount(pat, k, text, pos, n)
           [] it.t = "alt" -> TryAlt(pat, k, text, pos, 1)
           [] it.t = "grp" -> TryGroup(pat, k, text, pos, 0)

\* greedy repetition: the longest run first, then one less, down to lo
TryCount(pat, k, text, pos, n) ==
    LET e == MatchEnd(pat, k + 1, text, pos + n) IN
    IF e # NoMatch THEN e
    ELSE IF n > pat[k].lo THEN TryCount(pat, k, text, pos, n - 1)
    ELSE NoMatch

TryAlt(pat, k, text, pos, j) ==
    IF j > Len(pat[k].lits) THEN NoMatch
    ELSE LET lit == pat[k].lits[j]
             e == IF HasPrefixAt(text, pos, lit)
                  THEN MatchEnd(pat, k + 1, text, pos + Len(lit))
                  ELSE NoMatch
         IN IF e # NoMatch THEN e ELSE TryAlt(pat, k, text, pos, j + 1)

\* greedy group repetition: one more copy of sub first, then the rest of pat
TryGroup(pat, k, text, pos, reps) ==
    LET e1 == IF reps < pat[k].hi THEN MatchEnd(pat[k].sub, 1, text, pos) ELSE NoMatch
        more == IF e1 # NoMatch /\ e1 > pos THEN TryGroup(pat, k, text, e1, reps + 1)
                ELSE NoMatch
    IN IF more # NoMatch THEN more
       ELSE IF reps >= pat[k].lo THEN MatchEnd(pat, k + 1, text, pos)
       ELSE NoMatch

RECURSIVE FindAllFrom(_, _, _)
\* re.findall(pattern, text): the non-overlapping matches, left to right
FindAllFrom(pat, text, start) ==
    IF start > Len(text) THEN <<>>
    ELSE LET e == MatchEnd(pat, 1, text, start) IN
         IF e = NoMatch THEN FindAllFrom(pat, text, start + 1)
         ELSE IF e = start THEN FindAllFrom(pat, text, start + 1)
         ELSE <<SubSeq(text, start, e - 1)>> \o FindAllFrom(pat, text, e)

FindAll(pat, text) == FindAllFrom(pat, text, 1)

WB == [t |-> "wb"]
Cls(cs, lo, hi) == [t |-> "cls", cs |-> cs, lo |-> lo, hi |-> hi]
Alt(lits) == [t |-> "alt", lits |-> lits]
Grp(sub, lo, hi) == [t |-> "grp", sub |-> sub, lo |-> lo, hi |-> hi]

\* \s* never needs more repetitions than the text is long
Many == 8

\* the patterns list of detect_license_plate, in its order
patterns ==
    << \* \b[A-Z]{2}\d{2}\s*[A-Z]{3}\b
       <<WB, Cls(UpperLetters, 2, 2), Cls(Digits, 2, 2), Cls(Whitespace, 0, Many),
         Cls(UpperLetters, 3, 3), WB>>,
       \* \b[A-Z]{2}[-]?\d{2}\s*[-]?[A-Z]{3}\b
       <<WB, Cls(UpperLetters, 2, 2), Cls({"-"}, 0, 1), Cls(Digits, 2, 2),
         Cls(Whitespace, 0, Many), Cls({"-"}, 0, 1), Cls(UpperLetters, 3, 3), WB>>,
       \* \b[A-Z]\d{1,3}\s*[A-Z]{3}\b
       <<WB, Cls(UpperLetters, 1, 1), Cls(Digits, 1, 3), Cls(Whitespace, 0, Many),
         Cls(UpperLetters, 3, 3), WB>>,
       \* \b[A-Z]{3}\s*\d{1,3}[A-Z]\b
       <<WB, Cls(UpperLetters, 3, 3), Cls(Whitespace, 0, Many), Cls(Digits, 1, 3),
         Cls(UpperLetters, 1, 1), WB>>,
       \* \b[A-Z][-]?\d{1,3}\s*[-]?[A-Z]{3}\b
       <<WB, Cls(UpperLetters, 1, 1), Cls({"-"}, 0, 1), Cls(Digits, 1, 3),
         Cls(Whitespace, 0, Many), Cls({"-"}, 0, 1), Cls(UpperLetters, 3, 3), WB>>,
       \* (?:EU|GB)\s*[A-Z]{2}\d{2}\s*[A-Z]{3}
       <<Alt(<< <<"E", "U">>, <<"G", "B">> >>), Cls(Whitespace, 0, Many),
         Cls(UpperLetters, 2, 2), Cls(Digits, 2, 2), Cls(Whitespace, 0, Many),
         Cls(UpperLetters, 3, 3)>> >>

\* a clean-up that takes out the spaces and leaves the hyphens
clean_plate_KeepHyphens(match) == RemoveChar(match, " ")

\* match.replace(' ', '').replace('-', '')
clean_plate(match) == RemoveChar(RemoveChar(match, " "), "-")

\* at least 6 characters
MinPlateLen == 6

RECURSIVE KeepPlates(_)
KeepPlates(matches) ==
    IF matches = <<>> THEN <<>>
    ELSE LET p == clean_plate(Head(matches)) IN
         (IF Len(p) >= MinPlateLen THEN <<p>> ELSE <<>>) \o KeepPlates(Tail(matches))

RECURSIVE PlatesFrom(_, _)
\* plates_found: for each pattern in order, its cleaned matches of 6 or more
PlatesFrom(text, k) ==
    IF k > Len(patterns) THEN <<>>
    ELSE KeepPlates(FindAll(patterns[k], text)) \o PlatesFrom(text, k + 1)

plates_found(text) == PlatesFrom(text, 1)

RECURSIVE Dedup(_, _)
\* duplicates removed, first occurrence kept
Dedup(s, seen) ==
    IF s = <<>> THEN <<>>
    ELSE IF Head(s) \in seen THEN Dedup(Tail(s), seen)
         ELSE <<Head(s)>> \o Dedup(Tail(s), seen \cup {Head(s)})

unique_plates(text) == Dedup(plates_found(text), {})

\* parsed_text.upper().replace('\n', ' ').replace('\r', ' ')
NormalizeOcrText(parsed_text) ==
    ReplaceChar(ReplaceChar(Upper(parsed_text), "\n", " "), "\r", " ")

\* the plate one OCR pass yields from its text, or None
PlateInText(parsed_text) ==
    LET u == unique_plates(NormalizeOcrText(parsed_text)) IN
    IF u # <<>> THEN u[1] ELSE None


-----------------------------------------------------------------------------
(* More string helpers, for the listing extractors                          *)

\* a dict key that is not there; car.get(key) gives None for it
Absent == <<"<absent>">>
Get(v) == IF v = Absent THEN None ELSE v

\* sub in s
RECURSIVE ContainsStr(_, _)
ContainsStr(s, sub) ==
    IF Len(sub) > Len(s) THEN FALSE
    ELSE IF SubSeq(s, 1, Len(sub)) = sub THEN TRUE
    ELSE ContainsStr(Tail(s), sub)

\* any(word in s for word in words)
ContainsAny(s, words) == \E w \in words : ContainsStr(s, w)

\* s.startswith(prefix)
StartsWith(s, prefix) == Len(prefix) <= Len(s) /\ SubSeq(s, 1, Len(prefix)) = prefix

RECURSIVE SplitLinesFrom(_, _)
\* s.split('\n'), cur being the line read so far
SplitLinesFrom(s, cur) ==
    IF s = <<>> THEN <<cur>>
    ELSE IF Head(s) = "\n" THEN <<cur>> \o SplitLinesFrom(Tail(s), <<>>)
    ELSE SplitLinesFrom(Tail(s), Append(cur, Head(s)))

SplitLines(s) == SplitLinesFrom(s, <<>>)

RECURSIVE SearchFrom(_, _, _)
\* re.search(pattern, text): where the leftmost match starts and ends, or NoMatch
SearchFrom(pat, text, start) ==
    IF start > Len(text) + 1 THEN [start |-> NoMatch, end |-> NoMatch]
    ELSE LET e == MatchEnd(pat, 1, text, start) IN
         IF e # NoMatch THEN [start |-> start, end |-> e]
         ELSE SearchFrom(pat, text, start + 1)

Search(pat, text) == SearchFrom(pat, text, 1)

RECURSIVE GetTextStrip(_)
\* Tag.get_text(strip=True): every text node stripped, the non-empty ones joined
GetTextStrip(nodes) ==
    IF nodes = <<>> THEN <<>>
    ELSE Strip(Head(nodes)) \o GetTextStrip(Tail(nodes))

\* [\d,]
DigitsAndCommas == Digits \cup {","}

\* the character c, case ignored
AnyCase(c) == Cls({LowerChar(c), UpperChar(c)}, 1, 1)

\* r'([\d,]+)\s*miles?' with re.IGNORECASE
mileage_pattern ==
    <<Cls(DigitsAndCommas, 1, Many), Cls(Whitespace, 0, Many), AnyCase("m"), AnyCase("i"),
      AnyCase("l"), AnyCase("e"), Cls({"s", "S"}, 0, 1)>>

\* match.group(1).replace(',', '') of the mileage search, or Absent: group 1 is
\* the run of digits and commas the match starts with (nothing after it in the
\* pattern can take a digit or a comma)
MileageOf(text) ==
    LET m == Search(mileage_pattern, text) IN
    IF m.start = NoMatch THEN Absent
    ELSE RemoveChar(
           SubSeq(text, m.start,
                  m.start + RunLength(text, m.start, DigitsAndCommas, Many) - 1), ",")

\* r'£([\d,]+)'
at_price_pattern == <<Cls({"£"}, 1, 1), Cls(DigitsAndCommas, 1, Many)>>

\* f"£{price_match.group(1)}" of the first match, or Absent
ATPriceOf(text) ==
    LET m == Search(at_price_pattern, text) IN
    IF m.start = NoMatch THEN Absent ELSE SubSeq(text, m.start, m.end - 1)

-----------------------------------------------------------------------------
(* Inputs of process_cars: the records the extractors hand over             *)

\* "https://i.uk/car.jpg"
RasterUrl ==
    <<"h", "t", "t", "p", "s", ":", "/", "/", "i", ".", "u", "k", "/", "c", "a", "r", ".", "j", "p", "g">>
\* "data:image/svg+xml;base64,PHN2"
InlineSvgUrl ==
    <<"d", "a", "t", "a", ":", "i", "m", "a", "g", "e", "/", "s", "v", "g", "+", "x", "m", "l", ";", "b", "a", "s", "e", "6", "4", ",", "P", "H", "N", "2">>
\* "https://i.uk/badge.svg"
SvgFileUrl ==
    <<"h", "t", "t", "p", "s", ":", "/", "/", "i", ".", "u", "k", "/", "b", "a", "d", "g", "e", ".", "s", "v", "g">>
ImageUrls == {RasterUrl, InlineSvgUrl, SvgFileUrl}

Str(s) == <<s>>
NotDetected == Str("Not detected")
Failed == Str("Failed")
Error == Str("Error")
NoPlateMileage == Str("No plate/mileage")

\* mileage as the extractors set it: the digits of "<digits and commas> miles"
\* with the commas removed (empty for ", miles"), or no key at all
Mileages == {Absent, <<>>, <<"4", "5", "0", "0", "0">>}

SeqsUpTo(S, n) == UNION {[1..k -> S] : k \in 0..n}

\* images[:4] of scrape_pistonheads, max_images=4 of scrape_autotrader
ImageCap == 4

\* listings per run, and images per listing when there are several listings
MaxCars == 2
MaxImages == 1

\* line 478: the images a PistonHeads record has at least
min_images == 2

\* a record as an extractor emits it: "Ford Focus Zetec" for "£8,450"
Car(src, m, imgs) ==
    [source |-> src,
     title |-> <<"F", "o", "r", "d", " ", "F", "o", "c", "u", "s", " ", "Z", "e", "t", "e", "c">>,
     price |-> <<"£", "8", ",", "4", "5", "0">>,
     link |-> None, mileage |-> m, images |-> imgs,
     detected_plate |-> Absent, webuyanycar_valuation |-> Absent]

\* one listing with any images its extractor can emit: PistonHeads keeps any
\* URL and asks for min_images of them, AutoTrader keeps http URLs only
SingleCars ==
    {<<Car("PistonHeads", m, imgs)>> :
        m \in Mileages,
        imgs \in {s \in SeqsUpTo(ImageUrls, ImageCap) : Len(s) >= min_images}}
    \cup {<<Car("AutoTrader", m, imgs)>> :
            m \in Mileages, imgs \in SeqsUpTo({RasterUrl, SvgFileUrl}, ImageCap)}

\* up to MaxCars AutoTrader listings, with or without a mileage, each with up to
\* MaxImages raster images
SmallCars ==
    {Car("AutoTrader", m, imgs) :
        m \in Mileages \ {<<>>}, imgs \in SeqsUpTo({RasterUrl}, MaxImages)}

CarLists == SingleCars \cup SeqsUpTo(SmallCars, MaxCars)

-----------------------------------------------------------------------------
(* detect_license_plate                                                     *)

\* max_retries=3
max_retries == 3

\* what one requests.post to the OCR service can give
OcrTexts == {<<>>,
             <<"A", "B", "1", "2", " ", "C", "D", "E">>,
             <<"A", "B", "1", "2", "C", "D">>}
OcrOutcomes ==
    {[kind |-> "request_exception", text |-> None],
     [kind |-> "error_flag", text |-> None]}
    \cup {[kind |-> "ok", text |-> t] : t \in OcrTexts}

NoOcr == [kind |-> "none", text |-> None]

\* AttemptResult without its "except Exception": a failed request escapes
AttemptResult_NoExcept(attempt, out) ==
    LET last == ~(attempt < max_retries - 1)
        again == IF last THEN [do |-> "return", plate |-> None]
                 ELSE [do |-> "continue", plate |-> None]
    IN CASE out.kind = "request_exception" -> [do |-> "raise", plate |-> None]
         [] out.kind = "error_flag" -> again
         [] out.kind = "ok" ->
              IF ~Truthy(out.text) THEN [do |-> "return", plate |-> None]
              ELSE LET p == PlateInText(out.text) IN
                   IF p # None THEN [do |-> "return", plate |-> p] ELSE again

\* AttemptResult reading ParsedResults of an error-flagged response outside the
\* try: the missing key escapes as an exception
AttemptResult_ErrorFlagEscapes(attempt, out) ==
    LET last == ~(attempt < max_retries - 1)
        again == IF last THEN [do |-> "return", plate |-> None]
                 ELSE [do |-> "continue", plate |-> None]
    IN CASE out.kind = "request_exception" -> again
         [] out.kind = "error_flag" -> [do |-> "raise", plate |-> None]
         [] out.kind = "ok" ->
              IF ~Truthy(out.text) THEN [do |-> "return", plate |-> None]
              ELSE LET p == PlateInText(out.text) IN
                   IF p # None THEN [do |-> "return", plate |-> p] ELSE again

\* AttemptResult retrying an empty text like any other text without a plate
AttemptResult_RetryEmpty(attempt, out) ==
    LET last == ~(attempt < max_retries - 1)
        again == IF last THEN [do |-> "return", plate |-> None]
                 ELSE [do |-> "continue", plate |-> None]
    IN CASE out.kind = "request_exception" -> again
         [] out.kind = "error_flag" -> again
         [] out.kind = "ok" ->
              LET p == PlateInText(out.text) IN
              IF p # None THEN [do |-> "return", plate |-> p] ELSE again

\* one pass of the attempt loop (attempt counts from 0): what it does after the
\* OCR call came back with `out`: "continue" the loop, or "return" plate
AttemptResult(attempt, out) ==
    LET last == ~(attempt < max_retries - 1)
        again == IF last THEN [do |-> "return", plate |-> None]
                 ELSE [do |-> "continue", plate |-> None]
    IN CASE out.kind = "request_exception" -> again     \* except Exception
         [] out.kind = "error_flag" -> again            \* IsErroredOnProcessing
         [] out.kind = "ok" ->
              IF ~Truthy(out.text) THEN [do |-> "return", plate |-> None]
              ELSE LET p == PlateInText(out.text) IN
                   IF p # None THEN [do |-> "return", plate |-> p]
                   ELSE again         \* no plate found and not last attempt: retry

\* an OCR call that errored (error-flagged response, failed request) or whose
\* text holds no plate
IsBadOcr(out) ==
    \/ out.kind \in {"request_exception", "error_flag"}
    \/ out.kind = "ok" /\ PlateInText(out.text) = None

\* detect_license_plate without its first two lines
SkipsImage_Never(url) == FALSE

\* if 'svg+xml' in image_url: return None
SkipsImage(url) == ContainsStr(url, <<"s", "v", "g", "+", "x", "m", "l">>)

-----------------------------------------------------------------------------
(* get_valuation: the price read off the result page                        *)

\* r'£\s*\d+(?:,\d{3})*(?:\.\d{2})?'
price_pattern ==
    <<Cls({"£"}, 1, 1), Cls(Whitespace, 0, Many), Cls(Digits, 1, Many),
      Grp(<<Cls({","}, 1, 1), Cls(Digits, 3, 3)>>, 0, Many),
      Grp(<<Cls({"."}, 1, 1), Cls(Digits, 2, 2)>>, 0, 1)>>

DigitValue(c) ==
    CASE c = "0" -> 0 [] c = "1" -> 1 [] c = "2" -> 2 [] c = "3" -> 3 [] c = "4" -> 4
      [] c = "5" -> 5 [] c = "6" -> 6 [] c = "7" -> 7 [] c = "8" -> 8 [] c = "9" -> 9

RECURSIVE IntOfDigits(_, _)
IntOfDigits(s, acc) ==
    IF s = <<>> THEN acc ELSE IntOfDigits(Tail(s), 10 * acc + DigitValue(Head(s)))

\* int(s) of a string of digits with whitespace around it
ParseInt(s) == IntOfDigits(Strip(s), 0)

\* int(s) raises ValueError unless s is digits with whitespace around them
IntRaises(s) ==
    LET t == Strip(s) IN t = <<>> \/ \E i \in 1..Len(t) : t[i] \notin Digits

RECURSIVE BeforeDot(_)
\* match.split('.')[0]
BeforeDot(s) ==
    IF s = <<>> \/ Head(s) = "." THEN <<>> ELSE <<Head(s)>> \o BeforeDot(Tail(s))

\* int(re.sub(r'[£,.]', '', match.split('.')[0]))
PriceValue(match) ==
    ParseInt(RemoveChar(RemoveChar(RemoveChar(BeforeDot(match), "£"), ","), "."))

\* len(text) < 50
MaxPriceTextLen == 50
\* 100 <= value <= 50000
MinPrice == 100
MaxPrice == 50000

RECURSIVE PricesOfMatches(_)
PricesOfMatches(matches) ==
    IF matches = <<>> THEN <<>>
    ELSE LET v == PriceValue(Head(matches)) IN
         (IF MinPrice <= v /\ v <= MaxPrice
          THEN <<[price |-> Head(matches), value |-> v]>> ELSE <<>>)
         \o PricesOfMatches(Tail(matches))

RECURSIVE found_prices(_)
\* the found_prices list built from the elements' texts, in page order
found_prices(texts) ==
    IF texts = <<>> THEN <<>>
    ELSE LET text == Strip(Head(texts)) IN
         (IF Truthy(text) /\ Len(text) < MaxPriceTextLen
          THEN PricesOfMatches(FindAll(price_pattern, text)) ELSE <<>>)
         \o found_prices(Tail(texts))

\* a choice that takes the first amount found, whatever its value
FirstMax_FirstFound(fp) == fp[1]

\* found_prices.sort(key=value, reverse=True)[0]: the first entry of greatest
\* value (the sort is stable)
FirstMax(fp) ==
    fp[CHOOSE i \in 1..Len(fp) :
          /\ \A j \in 1..Len(fp) : fp[j].value <= fp[i].value
          /\ \A j \in 1..(i - 1) : fp[j].value < fp[i].value]

\* lines 886-904: the valuation string, or None
ResolvePrice(texts) ==
    LET fp == found_prices(texts) IN
    IF fp # <<>> THEN FirstMax(fp).price ELSE None

\* what the elements containing a pound sign read on the page that is showing
\* when the price is extracted
FeeText == <<"£", "2", "5", "0", " ", "f", "e", "e">>
HeroText == <<"£", "8", ",", "4", "5", "0">>
SmallText == <<"£", "1", "2">>
ResultPages == {<<>>, <<SmallText>>, <<FeeText, HeroText, SmallText>>}

\* how a get_valuation call can go once its browser is up
ValuationPaths ==
    {[kind |-> k, texts |-> <<>>] :
        k \in {"page_load_exception", "form_exception", "details_timeout",
               "extraction_exception"}}
    \cup {[kind |-> "completed", texts |-> t] : t \in ResultPages}

BrowserStartFailed == [kind |-> "browser_start_exception", texts |-> <<>>]
NoPath == [kind |-> "none", texts |-> <<>>]

ExceptionPaths ==
    {"browser_start_exception", "page_load_exception", "form_exception",
     "extraction_exception"}

\* what get_valuation hands back on a path: every Exception is caught inside
\* it (except Exception: return None), so nothing is raised to the caller
GetValuationReturn(path) ==
    [raised |-> FALSE,
     value |-> IF path.kind = "completed" THEN ResolvePrice(path.texts) ELSE None]

\* lines 962-973 of process_cars: what is stored for a valuation call
StoredValuation(ret) ==
    IF ret.raised THEN Error
    ELSE IF Truthy(ret.value) THEN ret.value ELSE Failed

-----------------------------------------------------------------------------
(* process_cars                                                             *)

VARIABLES
    all_cars,        \* the scraped records; enriched in place
    results,         \* self.results
    pc,              \* where process_cars is
    idx,             \* the listing being processed (1-based)
    img,             \* images of this listing detect_license_plate has returned for
    examined,        \* the images of this listing handed to detect_license_plate
    attempt,         \* OCR calls made so far by the running detect_license_plate
    lastOcr,         \* what the latest of them came back with
    ocrAllBad,       \* every one of them errored or gave text without a plate
    plate,           \* the local plate of process_cars
    driver,          \* the browser session of the running get_valuation
    vpath,           \* how this listing's get_valuation call went
    valuationCalls,  \* the listings get_valuation was called for
    site,            \* the extractor that is running, "none" outside one
    step,            \* where that extractor is
    page,            \* the elements of the page it reads, in document order
    failing,         \* the selectors find_elements raises for
    max_cars,        \* the max_cars argument, 0 for None
    listings,        \* its local listings: positions in page
    li,              \* listings[1..li] have been through the loop
    cars,            \* its local cars
    seen_titles,     \* its local seen_titles
    taken,           \* for each record of cars, the position in page it was read from
    browser,         \* the browser session of scrape_autotrader
    call,            \* one function called on its own: what it was given, what it gave
    job,             \* the arguments of process_cars and the pages behind its two URLs
    reach,           \* whether the extractor call under way got to its page
    scraped,         \* for each extractor call that returned to process_cars: the
                     \* site, whether the page was reached, the records handed over
    prog,            \* main: the environment it runs in, where it is, its credentials
    first,           \* what an earlier call of the extractor on the same page returned
    window,          \* the browser window of scrape_autotrader that holds the
                     \* listing page: "main" while it is open and current
    scan             \* the broader search of scrape_autotrader: whether it was
                     \* entered, and its potential_listings

pipeVars == <<all_cars, results, pc, idx, img, examined, attempt, lastOcr, ocrAllBad,
              plate, driver, vpath, valuationCalls>>

extVars == <<site, step, page, failing, max_cars, listings, li, cars, seen_titles, taken,
             browser>>

runVars == <<job, reach, scraped>>

sideVars == <<call, prog, first>>

auxVars == <<call, runVars, prog, first, window, scan>>

vars == <<pipeVars, extVars, auxVars>>

\* no function is being called on its own
NoCall == [fn |-> "none", text |-> <<>>, texts |-> <<>>, ret |-> <<>>, returned |-> FALSE]

\* process_cars is not being run as a whole
NoJob == [pistonheads_url |-> FALSE, autotrader_url |-> FALSE, ph_page |-> <<>>,
          at_page |-> <<>>, max_cars_per_site |-> 0]

\* main is not running: process_cars or one of its parts is run by itself
NoProg == [stage |-> "none", env |-> {}, SENDER_EMAIL |-> None, SENDER_PASSWORD |-> None,
           RECIPIENT_EMAIL |-> None, sent |-> FALSE]

\* the broader search has not been entered
NoScan == [ran |-> FALSE, found |-> <<>>]

\* the extractor has not been called before
NoFirst == [done |-> FALSE, reach |-> "pending", cars |-> <<>>]

RunIdle ==
    /\ prog = NoProg
    /\ first = NoFirst
    /\ window = "none"
    /\ scan = NoScan
    /\ job = NoJob
    /\ reach = "pending"
    /\ scraped = <<>>

\* finally: if driver: driver.quit() (lines 468-473, 909-914)
Quit_Skipped(session) == session
Quit(session) == IF session = "open" THEN "closed" ELSE session

\* cars = [] and seen_titles = set() on entry to an extractor (lines 288-289, 499-500)
FreshSeenTitles_CarriedOver(previous) == previous
FreshSeenTitles(previous) == {}

car == all_cars[idx]

\* car.get('images', [])[:4]
ImagesToCheck(c) == SubSeq(c.images, 1, IF Len(c.images) < ImageCap THEN Len(c.images) ELSE ImageCap)

\* no extractor is running
ExtractorIdle ==
    /\ site = "none"
    /\ step = "idle"
    /\ page = <<>>
    /\ failing = {}
    /\ max_cars = 0
    /\ listings = <<>>
    /\ li = 0
    /\ cars = <<>>
    /\ seen_titles = {}
    /\ taken = <<>>
    /\ browser = "none"

PerCarReset ==
    /\ img' = 0
    /\ examined' = <<>>
    /\ attempt' = 0
    /\ lastOcr' = NoOcr
    /\ ocrAllBad' = TRUE
    /\ plate' = None
    /\ driver' = "none"
    /\ vpath' = NoPath

Init ==
    /\ all_cars \in CarLists
    /\ results = <<>>
    /\ pc = "start"
    /\ idx = 0
    /\ img = 0
    /\ examined = <<>>
    /\ attempt = 0
    /\ lastOcr = NoOcr
    /\ ocrAllBad = TRUE
    /\ plate = None
    /\ driver = "none"
    /\ vpath = NoPath
    /\ valuationCalls = {}
    /\ ExtractorIdle
    /\ call = NoCall
    /\ RunIdle

\* lines 936-946: nothing scraped ends the run, otherwise the loop starts
Begin ==
    /\ pc = "start"
    /\ IF all_cars = <<>>
       THEN /\ pc' = "done"
            /\ idx' = idx
       ELSE /\ pc' = "images"
            /\ idx' = 1
    /\ UNCHANGED <<all_cars, results, img, examined, attempt, lastOcr, ocrAllBad, plate,
                   driver, vpath, valuationCalls>>
    /\ UNCHANGED extVars
    /\ UNCHANGED auxVars

\* lines 951-953, 559-562: the next image goes to detect_license_plate, which
\* returns None at once for an 'svg+xml' URL and otherwise enters its attempt loop
CheckImage ==
    /\ pc = "images"
    /\ ~Truthy(plate)
    /\ img < Len(ImagesToCheck(car))
    /\ examined' = Append(examined, img + 1)
    /\ attempt' = 0
    /\ lastOcr' = NoOcr
    /\ ocrAllBad' = TRUE
    /\ IF SkipsImage(ImagesToCheck(car)[img + 1])
       THEN /\ img' = img + 1
            /\ pc' = "images"
       ELSE /\ img' = img
            /\ pc' = "ocr"
    /\ UNCHANGED <<all_cars, results, idx, plate, driver, vpath, valuationCalls>>
    /\ UNCHANGED extVars
    /\ UNCHANGED auxVars

\* lines 562-647: one pass of the attempt loop, the OCR call included
OcrAttempt ==
    /\ pc = "ocr"
    /\ attempt < max_retries
    /\ \E out \in OcrOutcomes :
          LET r == AttemptResult(attempt, out) IN
          /\ attempt' = attempt + 1
          /\ lastOcr' = out
          /\ ocrAllBad' = (ocrAllBad /\ IsBadOcr(out))
          /\ IF r.do = "continue" /\ attempt + 1 < max_retries
             THEN /\ pc' = "ocr"
                  /\ UNCHANGED <<plate, img>>
             ELSE IF r.do = "raise"
             THEN /\ pc' = "aborted"
                  /\ UNCHANGED <<plate, img>>
             ELSE /\ pc' = "images"
                  /\ plate' = r.plate
                  /\ img' = img + 1
    /\ UNCHANGED <<all_cars, results, idx, examined, driver, vpath, valuationCalls>>
    /\ UNCHANGED extVars
    /\ UNCHANGED auxVars

\* lines 954-959: the image loop is over
SetPlate ==
    /\ pc = "images"
    /\ Truthy(plate) \/ img >= Len(ImagesToCheck(car))
    /\ all_cars' = [all_cars EXCEPT
                      ![idx].detected_plate = IF Truthy(plate) THEN plate ELSE NotDetected]
    /\ pc' = "valuate"
    /\ UNCHANGED <<results, idx, img, examined, attempt, lastOcr, ocrAllBad, plate, driver,
                   vpath, valuationCalls>>
    /\ UNCHANGED extVars
    /\ UNCHANGED auxVars

\* the condition without its mileage half
WantsValuation_PlateOnly(c, p) == Truthy(p)

\* if plate and car.get('mileage')
WantsValuation(c, p) == Truthy(p) /\ Truthy(Get(c.mileage))

\* lines 974-976
SkipValuation ==
    /\ pc = "valuate"
    /\ ~WantsValuation(car, plate)
    /\ all_cars' = [all_cars EXCEPT ![idx].webuyanycar_valuation = NoPlateMileage]
    /\ pc' = "append"
    /\ UNCHANGED <<results, idx, img, examined, attempt, lastOcr, ocrAllBad, plate, driver,
                   vpath, valuationCalls>>
    /\ UNCHANGED extVars
    /\ UNCHANGED auxVars

\* lines 962-964, 664-667: int(mileage), then get_valuation starts its browser
ValuationStart ==
    /\ pc = "valuate"
    /\ WantsValuation(car, plate)
    /\ IF IntRaises(car.mileage)
       THEN /\ all_cars' = [all_cars EXCEPT ![idx].webuyanycar_valuation = Error]
            /\ pc' = "append"
            /\ UNCHANGED <<driver, vpath, valuationCalls>>
       ELSE /\ valuationCalls' = valuationCalls \cup {idx}
            /\ \E started \in BOOLEAN :
                  IF started
                  THEN /\ driver' = "open"
                       /\ pc' = "in_valuation"
                       /\ UNCHANGED <<all_cars, vpath>>
                  ELSE /\ driver' = "none"
                       /\ vpath' = BrowserStartFailed
                       /\ all_cars' = [all_cars EXCEPT ![idx].webuyanycar_valuation =
                                         StoredValuation(GetValuationReturn(BrowserStartFailed))]
                       /\ pc' = "append"
    /\ UNCHANGED <<results, idx, img, examined, attempt, lastOcr, ocrAllBad, plate>>
    /\ UNCHANGED extVars
    /\ UNCHANGED auxVars

\* lines 668-914, 965-973: the rest of get_valuation, its finally: driver.quit(),
\* and the assignment of what it returned
ValuationRun ==
    /\ pc = "in_valuation"
    /\ \E path \in ValuationPaths :
          /\ vpath' = path
          /\ all_cars' = [all_cars EXCEPT ![idx].webuyanycar_valuation =
                            StoredValuation(GetValuationReturn(path))]
    /\ driver' = Quit(driver)
    /\ pc' = "append"
    /\ UNCHANGED <<results, idx, img, examined, attempt, lastOcr, ocrAllBad, plate, valuationCalls>>
    /\ UNCHANGED extVars
    /\ UNCHANGED auxVars

\* lines 978, 946, 981-988: the record is appended; the next listing, or the end
AppendResult ==
    /\ pc = "append"
    /\ results' = Append(results, car)
    /\ IF idx < Len(all_cars)
       THEN /\ idx' = idx + 1
            /\ pc' = "images"
       ELSE /\ idx' = idx
            /\ pc' = "done"
    /\ PerCarReset
    /\ UNCHANGED <<all_cars, valuationCalls>>
    /\ UNCHANGED extVars
    /\ UNCHANGED auxVars

Next ==
    \/ Begin
    \/ CheckImage
    \/ OcrAttempt
    \/ SetPlate
    \/ SkipValuation
    \/ ValuationStart
    \/ ValuationRun
    \/ AppendResult

Spec == Init /\ [][Next]_vars

\* the loop of process_cars takes a step whenever it can: nothing in it waits
\* on anything but calls that return or time out
FairSpec == Spec /\ WF_vars(Next)

-----------------------------------------------------------------------------
(* extract_images_from_detail_page                                          *)

\* s[:n]
Take(s, n) == SubSeq(s, 1, IF Len(s) < n THEN Len(s) ELSE n)

\* list(dict.fromkeys(s))
RECURSIVE DictFromKeys(_, _)
DictFromKeys(s, seen) ==
    IF s = <<>> THEN <<>>
    ELSE IF Head(s) \in seen THEN DictFromKeys(Tail(s), seen)
    ELSE <<Head(s)>> \o DictFromKeys(Tail(s), seen \cup {Head(s)})

\* an img element is what get_attribute gives for each of these, None for an
\* attribute it does not have
ImgAttrs == <<"src", "data-src", "data-lazy-src">>

\* lines 248-252
KeepsDetailImage(src) ==
    /\ Truthy(src)
    /\ StartsWith(src, <<"h", "t", "t", "p">>)
    /\ ~ContainsStr(Lower(src), <<"p", "l", "a", "c", "e", "h", "o", "l", "d", "e", "r">>)
    /\ ~ContainsStr(Lower(src), <<"l", "o", "g", "o">>)
    /\ ~ContainsStr(Lower(src), <<"i", "c", "o", "n">>)

RECURSIVE FirstKept(_, _)
\* lines 245-256: the first attribute of the element that qualifies, or None
FirstKept(image, k) ==
    IF k > Len(ImgAttrs) THEN None
    ELSE IF KeepsDetailImage(image[k]) THEN image[k]
    ELSE FirstKept(image, k + 1)

RECURSIVE CollectDetailImages(_)
\* lines 244-256
CollectDetailImages(img_elements) ==
    IF img_elements = <<>> THEN <<>>
    ELSE LET src == FirstKept(Head(img_elements), 1) IN
         (IF Truthy(src) THEN <<src>> ELSE <<>>) \o CollectDetailImages(Tail(img_elements))

\* lines 232-235, 259-264: window.open and the switch to the new window, then
\* in the finally driver.close() and the switch to window_handles[0].  When
\* window.open raises no window was added and none was switched to, so the
\* close() of the finally closes the window that is current, the one with the
\* listings, and the switch that follows raises into the bare except
WindowAfterDetail(detail, win) == IF detail.opens THEN win ELSE "closed"

\* lines 232-266: a detail page that does not load, or shows no img within the
\* wait, leaves images empty
extract_images_from_detail_page(detail, max_images) ==
    Take(DictFromKeys(IF detail.opens /\ detail.loads THEN CollectDetailImages(detail.imgs)
                      ELSE <<>>, {}),
         max_images)

-----------------------------------------------------------------------------
(* scrape_autotrader                                                        *)

all_selectors ==
    <<"li[data-advert-id]",
      "li[data-testid='trader-seller-listing']",
      "article[data-testid='trader-seller-listing']",
      "section[data-testid='trader-seller-listing']",
      "li.search-page__result",
      "article.product-card">>

Positions(pg) == [i \in 1..Len(pg) |-> i]

\* driver.find_elements(By.CSS_SELECTOR, selector): positions in document order
FindElements(pg, selector) == SelectSeq(Positions(pg), LAMBDA i : selector \in pg[i].matches)

\* driver.find_elements(By.TAG_NAME, tag)
FindByTag(pg, tag) == SelectSeq(Positions(pg), LAMBDA i : pg[i].tag = tag)

\* the adoption test with >= for >
Adopt_LatestOnTie(cur, found) == IF found # <<>> /\ Len(found) >= Len(cur) THEN found ELSE cur

\* lines 346-347
Adopt(cur, found) == IF found # <<>> /\ Len(found) > Len(cur) THEN found ELSE cur

RECURSIVE SelectListings(_, _, _, _)
\* lines 342-350: a selector find_elements raises for is passed over
SelectListings(pg, fail, k, cur) ==
    IF k > Len(all_selectors) THEN cur
    ELSE IF all_selectors[k] \in fail THEN SelectListings(pg, fail, k + 1, cur)
    ELSE SelectListings(pg, fail, k + 1, Adopt(cur, FindElements(pg, all_selectors[k])))

\* line 361
listing_words == {<<"m", "i", "l", "e", "s">>, <<"m", "a", "n", "u", "a", "l">>, <<"a", "u", "t", "o", "m", "a", "t", "i", "c">>, <<"p", "e", "t", "r", "o", "l">>, <<"d", "i", "e", "s", "e", "l">>}

\* line 362
form_words == {<<"m", "a", "k", "e", " ", "a", "n", "d", " ", "m", "o", "d", "e", "l">>, <<"p", "o", "s", "t", "c", "o", "d", "e">>, <<"s", "e", "a", "r", "c", "h", " ", "r", "a", "d", "i", "u", "s">>}

\* lines 359-363
LooksLikeListing(elem) ==
    /\ ContainsStr(elem.text, <<"£">>)
    /\ ContainsAny(Lower(elem.text), listing_words)
    /\ ~ContainsAny(Lower(elem.text), form_words)

\* lines 354-363
potential_listings(pg) ==
    SelectSeq(FindByTag(pg, "article") \o FindByTag(pg, "section"),
              LAMBDA i : LooksLikeListing(pg[i]))

\* lines 358-359: elem.text raises for an element that went stale
ScanRaises(pg) ==
    \E i \in 1..Len(pg) : pg[i].tag \in {"article", "section"} /\ pg[i].broken

\* lines 352-367
Broaden(pg, cur) ==
    IF Len(cur) <= 1 /\ Len(potential_listings(pg)) > Len(cur)
    THEN potential_listings(pg) ELSE cur

\* lines 369-370
Truncate(cur, n) == IF n # 0 THEN Take(cur, n) ELSE cur

\* line 379
MinListingText == 20

\* lines 382-383
skip_words == {<<"m", "a", "k", "e", " ", "a", "n", "d", " ", "m", "o", "d", "e", "l">>, <<"s", "e", "a", "r", "c", "h", " ", "r", "a", "d", "i", "u", "s">>, <<"p", "o", "s", "t", "c", "o", "d", "e">>, <<"p", "r", "i", "c", "e", " ", "r", "a", "n", "g", "e">>}

title_selectors ==
    <<"h3", "h2", "a[href*='/car-details']", "[data-testid='search-listing-title']",
      "p[class*='title']">>

\* line 398
MinTitleLen == 10

RECURSIVE TitleFromSelectors(_, _, _)
\* lines 394-401: subs[k] is the text of what title_selectors[k] finds, Absent
\* when find_element raises
TitleFromSelectors(subs, k, title_text) ==
    IF k > Len(title_selectors) THEN title_text
    ELSE IF subs[k] = Absent THEN TitleFromSelectors(subs, k + 1, title_text)
    ELSE LET t == Strip(subs[k]) IN
         IF Truthy(t) /\ Len(t) > MinTitleLen THEN t
         ELSE TitleFromSelectors(subs, k + 1, t)

\* line 405
FallbackLines == 5

\* line 406
MaxTitleLine == 100

\* lines 407-408
title_words == {<<"e", "u", "r", "o">>, <<"s", "p", "o", "r", "t">>, <<"e", "d", "i", "t", "i", "o", "n">>, <<"c", "o", "m", "f", "o", "r", "t">>, <<"l", "i", "f", "e">>, <<"s", "t", "y", "l", "e">>}

RECURSIVE TitleFromLines(_)
\* lines 405-410
TitleFromLines(lines) ==
    IF lines = <<>> THEN None
    ELSE LET line == Head(lines) IN
         IF /\ MinTitleLen < Len(line)
            /\ Len(line) < MaxTitleLine
            /\ ~StartsWith(line, <<"£">>)
            /\ ContainsAny(Lower(line), title_words)
         THEN Strip(line)
         ELSE TitleFromLines(Tail(lines))

\* lines 388-410
ATTitle(elem) ==
    LET title_text == TitleFromSelectors(elem.subs, 1, None) IN
    IF Truthy(title_text) THEN title_text
    ELSE TitleFromLines(Take(SplitLines(elem.text), FallbackLines))

NoCar == [source |-> "none"]

\* lines 376-451: what one pass of the loop makes of a listing: the exception
\* handler, a continue, or the record built
ATCandidate(elem) ==
    IF elem.broken THEN [kind |-> "error", car |-> NoCar]
    ELSE IF ~Truthy(elem.text) \/ Len(elem.text) < MinListingText
    THEN [kind |-> "skip", car |-> NoCar]
    ELSE IF ContainsAny(Lower(elem.text), skip_words) THEN [kind |-> "skip", car |-> NoCar]
    ELSE IF ~Truthy(ATTitle(elem)) THEN [kind |-> "skip", car |-> NoCar]
    ELSE [kind |-> "car",
          car |-> [source |-> "AutoTrader",
                   title |-> ATTitle(elem),
                   price |-> ATPriceOf(elem.text),
                   link |-> Get(elem.href),
                   mileage |-> MileageOf(elem.text),
                   images |-> IF Truthy(Get(elem.href))
                              THEN extract_images_from_detail_page(elem.detail, ImageCap)
                              ELSE <<>>,
                   detected_plate |-> Absent,
                   webuyanycar_valuation |-> Absent]]

\* lines 376-377: listing.text raises once the window of the listings is gone
ATRead(elem, win) ==
    IF win = "closed" THEN [kind |-> "error", car |-> NoCar] ELSE ATCandidate(elem)

\* lines 445-447: if car.get('link')
FetchesImages(c) == c.kind = "car" /\ Truthy(Get(c.car.link))

\* the test without its price half
ATAccepts_TitleOnly(c) == Truthy(Get(c.title))

\* line 453
ATAccepts(c) == Truthy(Get(c.title)) /\ Truthy(Get(c.price))

\* the key without lower()
ATKey_CaseSensitive(c) == Strip(c.title) \o <<"_">> \o Get(c.price)

\* line 454
ATKey(c) == Strip(Lower(c.title)) \o <<"_">> \o Get(c.price)

-----------------------------------------------------------------------------
(* scrape_pistonheads                                                       *)

\* line 497: the articles, or when there are none the listing/card divs
PHListings(pg) ==
    IF FindByTag(pg, "article") # <<>> THEN FindByTag(pg, "article")
    ELSE FindByTag(pg, "div.card")

\* "https://www.pistonheads.com"
PHBase ==
    <<"h", "t", "t", "p", "s", ":", "/", "/", "w", "w", "w", ".", "p", "i", "s", "t", "o", "n", "h", "e", "a", "d", "s", ".", "c", "o", "m">>

HasScheme(u) ==
    \/ StartsWith(u, <<"h", "t", "t", "p", ":", "/", "/">>)
    \/ StartsWith(u, <<"h", "t", "t", "p", "s", ":", "/", "/">>)
    \/ StartsWith(u, <<"d", "a", "t", "a", ":">>)

\* urljoin(base, u) for a base that is an origin
UrlJoin(base, u) ==
    IF HasScheme(u) THEN u
    ELSE IF StartsWith(u, <<"/">>) THEN base \o u
    ELSE base \o <<"/">> \o u

RECURSIVE ReplaceStr(_, _, _)
\* s.replace(old, new)
ReplaceStr(s, old, new) ==
    IF Len(s) < Len(old) THEN s
    ELSE IF SubSeq(s, 1, Len(old)) = old
    THEN new \o ReplaceStr(SubSeq(s, Len(old) + 1, Len(s)), old, new)
    ELSE <<Head(s)>> \o ReplaceStr(Tail(s), old, new)

\* the text nodes of an element that is not there
NoNodes == <<Absent>>

\* lines 508-510: the text nodes of the first heading, else of the listing link
PHTitleNodes(elem) ==
    IF elem.heading # NoNodes THEN elem.heading
    ELSE IF elem.anchor.present THEN elem.anchor.nodes
    ELSE NoNodes

\* lines 514-518
PHLink(elem) ==
    IF elem.anchor.present /\ Truthy(elem.anchor.href)
    THEN UrlJoin(PHBase, elem.anchor.href) ELSE None

\* lines 520-523: the first string holding a pound sign, else the element whose
\* class holds 'price'
PHPrice(elem) ==
    IF elem.pound # Absent THEN Strip(elem.pound)
    ELSE IF elem.price_class # NoNodes THEN GetTextStrip(elem.price_class)
    ELSE Absent

RECURSIVE PHCollectImages(_)
\* lines 526-531: an img element is <<src, data-src>>
PHCollectImages(img_elements) ==
    IF img_elements = <<>> THEN <<>>
    ELSE LET image == Head(img_elements)
             img_url == IF Truthy(image[1]) THEN image[1] ELSE image[2]
         IN  (IF Truthy(img_url) /\ ~ContainsStr(Lower(img_url), <<"p", "l", "a", "c", "e", "h", "o", "l", "d", "e", "r">>)
              THEN <<ReplaceStr(UrlJoin(PHBase, img_url), <<"/", "T", "h", "u", "m", "b", "n", "a", "i", "l", "/">>, <<"/", "F", "u", "l", "l", "s", "i", "z", "e", "/">>)>>
              ELSE <<>>)
             \o PHCollectImages(Tail(img_elements))

\* lines 505-541
PHCandidate(elem) ==
    IF PHTitleNodes(elem) = NoNodes THEN [kind |-> "skip", car |-> NoCar]
    ELSE [kind |-> "car",
          car |-> [source |-> "PistonHeads",
                   title |-> GetTextStrip(PHTitleNodes(elem)),
                   price |-> PHPrice(elem),
                   link |-> PHLink(elem),
                   mileage |-> MileageOf(elem.details),
                   images |-> Take(PHCollectImages(elem.imgs), ImageCap),
                   detected_plate |-> Absent,
                   webuyanycar_valuation |-> Absent]]

\* line 543
PHAccepts(c) ==
    Truthy(Get(c.title)) /\ Truthy(Get(c.price)) /\ Len(c.images) >= min_images

\* line 544
PHKey(c) == Strip(Lower(c.title))

-----------------------------------------------------------------------------
(* The pages the extractors read                                            *)

\* elements on a page; the pages of ContentElems are one shorter
MaxElements == 3

\* a detail page on which the wait for an img times out (lines 237-239)
NoDetail == [opens |-> TRUE, loads |-> FALSE, imgs |-> <<>>]

\* a detail page for which window.open raises
UnopenedDetail == [opens |-> FALSE, loads |-> FALSE, imgs |-> <<>>]

ATElem(tag, matches, text, subs, href, detail, broken) ==
    [tag |-> tag, matches |-> matches, text |-> text, subs |-> subs, href |-> href,
     detail |-> detail, broken |-> broken]

\* the sub-elements of a listing that has an h3 only
OnlyH3(t) == <<t, Absent, Absent, Absent, Absent>>

NoSubs == <<Absent, Absent, Absent, Absent, Absent>>

\* the strings on the AutoTrader pages:
\*   listing   "Ford Focus Zetec\n£8,450\n45,000 miles"
\*   dearer    "Ford Focus Zetec\n£9,000\n45,000 miles"
\*   unpriced  "Ford Focus Zetec\n45,000 miles\nManual"
\*   short     "Ford £8,450"
\*   form      "Enter postcode\n£8,450 price range"
\*   sport     "Ford Focus Sport\n£8,450\n45,000 miles"
\*   title     "Ford Focus Zetec"
\*   upper     "FORD FOCUS ZETEC"
\*   brief     "Ford"
\*   link      "https://at.uk/car-details/1"
\*   logo      "https://i.uk/Logo.png"
\*   filter    "Price range\n£500 to £9,000\nDiesel"
ATText ==
    [listing |->
       <<"F", "o", "r", "d", " ", "F", "o", "c", "u", "s", " ", "Z", "e", "t", "e", "c", "\n", "£", "8", ",", "4", "5", "0", "\n", "4", "5", ",", "0", "0", "0", " ", "m", "i", "l", "e", "s">>,
     dearer |->
       <<"F", "o", "r", "d", " ", "F", "o", "c", "u", "s", " ", "Z", "e", "t", "e", "c", "\n", "£", "9", ",", "0", "0", "0", "\n", "4", "5", ",", "0", "0", "0", " ", "m", "i", "l", "e", "s">>,
     unpriced |->
       <<"F", "o", "r", "d", " ", "F", "o", "c", "u", "s", " ", "Z", "e", "t", "e", "c", "\n", "4", "5", ",", "0", "0", "0", " ", "m", "i", "l", "e", "s", "\n", "M", "a", "n", "u", "a", "l">>,
     short |->
       <<"F", "o", "r", "d", " ", "£", "8", ",", "4", "5", "0">>,
     form |->
       <<"E", "n", "t", "e", "r", " ", "p", "o", "s", "t", "c", "o", "d", "e", "\n", "£", "8", ",", "4", "5", "0", " ", "p", "r", "i", "c", "e", " ", "r", "a", "n", "g", "e">>,
     sport |->
       <<"F", "o", "r", "d", " ", "F", "o", "c", "u", "s", " ", "S", "p", "o", "r", "t", "\n", "£", "8", ",", "4", "5", "0", "\n", "4", "5", ",", "0", "0", "0", " ", "m", "i", "l", "e", "s">>,
     title |->
       <<"F", "o", "r", "d", " ", "F", "o", "c", "u", "s", " ", "Z", "e", "t", "e", "c">>,
     upper |->
       <<"F", "O", "R", "D", " ", "F", "O", "C", "U", "S", " ", "Z", "E", "T", "E", "C">>,
     brief |->
       <<"F", "o", "r", "d">>,
     link |->
       <<"h", "t", "t", "p", "s", ":", "/", "/", "a", "t", ".", "u", "k", "/", "c", "a", "r", "-", "d", "e", "t", "a", "i", "l", "s", "/", "1">>,
     logo |->
       <<"h", "t", "t", "p", "s", ":", "/", "/", "i", ".", "u", "k", "/", "L", "o", "g", "o", ".", "p", "n", "g">>,
     filter |->
       <<"P", "r", "i", "c", "e", " ", "r", "a", "n", "g", "e", "\n", "£", "5", "0", "0", " ", "t", "o", " ", "£", "9", ",", "0", "0", "0", "\n", "D", "i", "e", "s", "e", "l">>]

\* a detail page whose img elements repeat a picture and carry a logo
DetailPage ==
    [opens |-> TRUE, loads |-> TRUE,
     imgs |-> <<<<RasterUrl, None, None>>, <<None, RasterUrl, None>>,
                <<ATText.logo, None, SvgFileUrl>>>>]

\* listing elements that differ in what can be read off them
ContentElems ==
    {ATElem("li", {all_selectors[1]}, ATText.listing,
            <<ATText.title, Absent, ATText.title, Absent, Absent>>, ATText.link, DetailPage, FALSE),
     ATElem("li", {all_selectors[1]}, ATText.listing, OnlyH3(ATText.upper), Absent, NoDetail, FALSE),
     ATElem("li", {all_selectors[1]}, ATText.dearer, OnlyH3(ATText.title), Absent, NoDetail, FALSE),
     ATElem("li", {all_selectors[1]}, ATText.unpriced, OnlyH3(ATText.title), Absent, NoDetail, FALSE),
     ATElem("li", {all_selectors[1]}, ATText.short, OnlyH3(ATText.title), Absent, NoDetail, FALSE),
     ATElem("li", {all_selectors[1]}, ATText.form, OnlyH3(ATText.title), Absent, NoDetail, FALSE),
     ATElem("li", {all_selectors[1]}, ATText.sport, NoSubs, Absent, NoDetail, FALSE),
     ATElem("li", {all_selectors[1]}, ATText.listing, NoSubs, Absent, NoDetail, FALSE),
     ATElem("li", {all_selectors[1]}, ATText.listing,
            <<ATText.brief, Absent, Absent, Absent, Absent>>, Absent, NoDetail, FALSE),
     ATElem("li", {all_selectors[1]}, ATText.listing, OnlyH3(ATText.title), Absent, NoDetail, TRUE),
     ATElem("li", {all_selectors[1]}, ATText.dearer,
            <<ATText.title, Absent, ATText.title, Absent, Absent>>, ATText.link, UnopenedDetail,
            FALSE),
     ATElem("li", {all_selectors[1]}, ATText.sport, NoSubs, ATText.link, NoDetail, FALSE)}

\* listing elements that differ in which selectors and tags find them
SelectionElems ==
    {ATElem("li", {all_selectors[1]}, ATText.listing, OnlyH3(ATText.title), Absent, NoDetail, FALSE),
     ATElem("li", {all_selectors[1], all_selectors[2]}, ATText.dearer, OnlyH3(ATText.title), Absent,
            NoDetail, FALSE),
     ATElem("li", {all_selectors[2]}, ATText.listing, OnlyH3(ATText.upper), Absent, NoDetail, FALSE),
     ATElem("article", {all_selectors[3]}, ATText.sport, NoSubs, Absent, NoDetail, FALSE),
     ATElem("article", {}, ATText.listing, OnlyH3(ATText.title), Absent, NoDetail, FALSE),
     ATElem("section", {}, ATText.form, NoSubs, Absent, NoDetail, FALSE),
     ATElem("section", {}, ATText.dearer, OnlyH3(ATText.title), Absent, NoDetail, TRUE),
     ATElem("section", {}, ATText.filter, NoSubs, Absent, NoDetail, FALSE)}

\* the selectors find_elements raises for, with the max_cars argument (0 for
\* None) of the call
SelectionRuns ==
    {<<{}, 0>>, <<{}, 2>>, <<{all_selectors[1]}, 0>>,
     <<{all_selectors[1], all_selectors[2]}, 2>>}

PHElem(tag, heading, anchor, pound, price_class, imgs, details) ==
    [tag |-> tag, heading |-> heading, anchor |-> anchor, pound |-> pound,
     price_class |-> price_class, imgs |-> imgs, details |-> details]

NoAnchor == [present |-> FALSE, href |-> None, nodes |-> <<>>]

\* the strings on the PistonHeads pages:
\*   ford "Ford Focus", upper "FORD FOCUS", wide "Ford  Focus", audi "Audi A3",
\*   low "£8,450", high "£9,000", details "2015 45,000 miles Manual",
\*   href "/buy/listing/7", thumb "/Thumbnail/a.jpg",
\*   placeholder "https://i.uk/Placeholder.png"
PHText ==
    [ford |-> <<"F", "o", "r", "d", " ", "F", "o", "c", "u", "s">>,
     upper |-> <<"F", "O", "R", "D", " ", "F", "O", "C", "U", "S">>,
     wide |->
       <<"F", "o", "r", "d", " ", " ", "F", "o", "c", "u", "s">>,
     audi |-> <<"A", "u", "d", "i", " ", "A", "3">>,
     low |-> <<"£", "8", ",", "4", "5", "0">>,
     high |-> <<"£", "9", ",", "0", "0", "0">>,
     details |->
       <<"2", "0", "1", "5", " ", "4", "5", ",", "0", "0", "0", " ", "m", "i", "l", "e", "s", " ", "M", "a", "n", "u", "a", "l">>,
     href |->
       <<"/", "b", "u", "y", "/", "l", "i", "s", "t", "i", "n", "g", "/", "7">>,
     thumb |->
       <<"/", "T", "h", "u", "m", "b", "n", "a", "i", "l", "/", "a", ".", "j", "p", "g">>,
     placeholder |->
       <<"h", "t", "t", "p", "s", ":", "/", "/", "i", ".", "u", "k", "/", "P", "l", "a", "c", "e", "h", "o", "l", "d", "e", "r", ".", "p", "n", "g">>]

\* the img elements of a listing: two pictures, one picture among a placeholder
\* and an img without a URL, one picture twice
PHImgs ==
    [two |-> <<<<RasterUrl, None>>, <<None, PHText.thumb>>>>,
     one |-> <<<<RasterUrl, None>>, <<PHText.placeholder, RasterUrl>>, <<None, None>>>>,
     twice |-> <<<<RasterUrl, None>>, <<RasterUrl, None>>>>]

PHElems ==
    {PHElem("article", <<PHText.ford>>, NoAnchor, PHText.low, NoNodes, PHImgs.two, PHText.details),
     PHElem("article", <<PHText.upper>>, NoAnchor, PHText.low, NoNodes, PHImgs.two, PHText.details),
     PHElem("article", <<PHText.ford>>, NoAnchor, PHText.high, NoNodes, PHImgs.two, PHText.details),
     PHElem("article", <<PHText.wide>>, NoAnchor, PHText.low, NoNodes, PHImgs.twice, PHText.details),
     PHElem("article", <<PHText.ford>>, NoAnchor, PHText.low, NoNodes, PHImgs.one, PHText.details),
     PHElem("article", NoNodes, NoAnchor, PHText.low, NoNodes, PHImgs.two, PHText.details),
     PHElem("article", NoNodes, [present |-> TRUE, href |-> PHText.href, nodes |-> <<PHText.audi>>],
            Absent, NoNodes, PHImgs.two, PHText.details),
     PHElem("article", <<<<" ">>>>, NoAnchor, Absent, <<<<" ">>, PHText.high>>, PHImgs.two,
            PHText.details),
     PHElem("div.card", <<<<"\n", " ">>, PHText.audi \o <<" ">>>>, NoAnchor, <<" ">> \o PHText.low,
            NoNodes, PHImgs.two, <<>>)}

\* site, page, failing selectors and max_cars of one extractor call
ExtractorInputs ==
    {<<"PistonHeads", pg, {}, 0>> : pg \in SeqsUpTo(PHElems, MaxElements)}
    \cup {<<"AutoTrader", pg, {}, 0>> : pg \in SeqsUpTo(ContentElems, MaxElements - 1)}
    \cup {<<"AutoTrader", pg, run[1], run[2]>> :
            pg \in SeqsUpTo(SelectionElems, MaxElements), run \in SelectionRuns}

-----------------------------------------------------------------------------
(* One call of an extractor from process_cars (lines 926-934)               *)

InitExtract ==
    /\ all_cars = <<>>
    /\ results = <<>>
    /\ pc = "scrape"
    /\ idx = 0
    /\ img = 0
    /\ examined = <<>>
    /\ attempt = 0
    /\ lastOcr = NoOcr
    /\ ocrAllBad = TRUE
    /\ plate = None
    /\ driver = "none"
    /\ vpath = NoPath
    /\ valuationCalls = {}
    /\ \E input \in ExtractorInputs :
          /\ site = input[1]
          /\ page = input[2]
          /\ failing = input[3]
          /\ max_cars = input[4]
    /\ step = "start"
    /\ listings = <<>>
    /\ li = 0
    /\ cars = <<>>
    /\ seen_titles = {}
    /\ taken = <<>>
    /\ browser = "none"
    /\ call = NoCall
    /\ RunIdle

\* lines 488-502: the page is fetched and parsed, or the call returns []
PHFetch ==
    /\ site = "PistonHeads"
    /\ step = "start"
    /\ \E fetched \in BOOLEAN :
          IF fetched
          THEN /\ listings' = PHListings(page)
               /\ step' = "loop"
               /\ reach' = "reached"
               /\ cars' = <<>>
               /\ taken' = <<>>
               /\ seen_titles' = FreshSeenTitles(seen_titles)
          ELSE /\ listings' = <<>>
               /\ step' = "returned"
               /\ reach' = "unreachable"
               /\ cars' = <<>>
               /\ taken' = <<>>
               /\ seen_titles' = seen_titles
    /\ li' = 0
    /\ UNCHANGED <<site, page, failing, max_cars, browser>>
    /\ UNCHANGED pipeVars
    /\ UNCHANGED <<job, scraped>>
    /\ UNCHANGED <<sideVars, window, scan>>

\* lines 504-552: one listing
PHListing ==
    /\ site = "PistonHeads"
    /\ step = "loop"
    /\ li < Len(listings)
    /\ li' = li + 1
    /\ LET c == PHCandidate(page[listings[li + 1]]) IN
       IF c.kind = "car" /\ PHAccepts(c.car) /\ PHKey(c.car) \notin seen_titles
       THEN /\ seen_titles' = seen_titles \cup {PHKey(c.car)}
            /\ cars' = Append(cars, c.car)
            /\ taken' = Append(taken, li + 1)
       ELSE UNCHANGED <<seen_titles, cars, taken>>
    /\ UNCHANGED <<site, step, page, failing, max_cars, listings, browser>>
    /\ UNCHANGED pipeVars
    /\ UNCHANGED auxVars

\* lines 554-555
PHReturn ==
    /\ site = "PistonHeads"
    /\ step = "loop"
    /\ li = Len(listings)
    /\ step' = "returned"
    /\ UNCHANGED <<site, page, failing, max_cars, listings, li, cars, seen_titles, taken,
                   browser>>
    /\ UNCHANGED pipeVars
    /\ UNCHANGED auxVars

\* lines 287-329: the browser starts and the page loads; when either raises the
\* handler at 466 and the finally at 468 run and the call returns []
ATOpen ==
    /\ site = "AutoTrader"
    /\ step = "start"
    /\ \E outcome \in {"loaded", "no browser", "load failed"} :
          /\ browser' = CASE outcome = "loaded" -> "open"
                          [] outcome = "no browser" -> "none"
                          [] OTHER -> Quit("open")
          /\ step' = IF outcome = "loaded" THEN "select" ELSE "returned"
          /\ reach' = IF outcome = "loaded" THEN "reached" ELSE "unreachable"
          /\ window' = IF outcome = "loaded" THEN "main" ELSE "none"
    /\ cars' = <<>>
    /\ taken' = <<>>
    /\ seen_titles' = FreshSeenTitles(seen_titles)
    /\ listings' = <<>>
    /\ li' = 0
    /\ UNCHANGED <<site, page, failing, max_cars>>
    /\ UNCHANGED pipeVars
    /\ UNCHANGED <<job, scraped>>
    /\ scan' = NoScan
    /\ UNCHANGED sideVars

\* lines 342-350: the selector strategies
ATSelect ==
    /\ site = "AutoTrader"
    /\ step = "select"
    /\ listings' = SelectListings(page, failing, 1, <<>>)
    /\ step' = "broaden"
    /\ UNCHANGED <<site, page, failing, max_cars, li, cars, seen_titles, taken, browser>>
    /\ UNCHANGED pipeVars
    /\ UNCHANGED auxVars

\* lines 352-373: the broader search and the max_cars cut; an element that
\* raises in the search ends the call through the handler at 466
ATBroaden ==
    /\ site = "AutoTrader"
    /\ step = "broaden"
    /\ IF Len(listings) <= 1 /\ ScanRaises(page)
       THEN /\ step' = "returned"
            /\ browser' = Quit(browser)
            /\ window' = "none"
            /\ listings' = listings
            /\ scan' = [ran |-> TRUE, found |-> <<>>]
       ELSE /\ step' = "loop"
            /\ browser' = browser
            /\ window' = window
            /\ listings' = Truncate(Broaden(page, listings), max_cars)
            /\ scan' = IF Len(listings) <= 1
                       THEN [ran |-> TRUE, found |-> potential_listings(page)]
                       ELSE scan
    /\ UNCHANGED <<site, page, failing, max_cars, li, cars, seen_titles, taken>>
    /\ UNCHANGED pipeVars
    /\ UNCHANGED <<call, runVars, prog, first>>

\* lines 375-464: one listing
ATListing ==
    /\ site = "AutoTrader"
    /\ step = "loop"
    /\ li < Len(listings)
    /\ li' = li + 1
    /\ LET c == ATRead(page[listings[li + 1]], window) IN
       /\ IF c.kind = "car" /\ ATAccepts(c.car) /\ ATKey(c.car) \notin seen_titles
          THEN /\ seen_titles' = seen_titles \cup {ATKey(c.car)}
               /\ cars' = Append(cars, c.car)
               /\ taken' = Append(taken, li + 1)
          ELSE UNCHANGED <<seen_titles, cars, taken>>
       /\ window' = IF FetchesImages(c)
                     THEN WindowAfterDetail(page[listings[li + 1]].detail, window)
                     ELSE window
    /\ UNCHANGED <<site, step, page, failing, max_cars, listings, browser>>
    /\ UNCHANGED pipeVars
    /\ UNCHANGED <<call, runVars, prog, first, scan>>

\* lines 468-476: finally: driver.quit(), and the return
ATReturn ==
    /\ site = "AutoTrader"
    /\ step = "loop"
    /\ li = Len(listings)
    /\ browser' = Quit(browser)
    /\ window' = "none"
    /\ step' = "returned"
    /\ UNCHANGED <<site, page, failing, max_cars, listings, li, cars, seen_titles, taken>>
    /\ UNCHANGED pipeVars
    /\ UNCHANGED <<call, runVars, prog, first, scan>>

NextExtract ==
    \/ PHFetch
    \/ PHListing
    \/ PHReturn
    \/ ATOpen
    \/ ATSelect
    \/ ATBroaden
    \/ ATListing
    \/ ATReturn

SpecExtract == InitExtract /\ [][NextExtract]_vars

-----------------------------------------------------------------------------
(* One OCR pass over a text, and one price extraction over the texts of a   *)
(* result page, each on its own                                             *)

\* the pieces OCR texts are put together from
PlateTokens ==
    {<<"A", "B", "1", "2">>, <<"A", "B", "-", "1", "2">>, <<"C", "D", "E">>, <<"A", "1", "2", "3">>, <<"B", "C", "D">>, <<"A", "B", "1", "2", "C", "D">>, <<"a", "b", "1", "2">>,
     <<" ">>, <<"-">>, <<"\t">>, <<"\n">>}

\* the most pieces in one OCR text
MaxTokens == 3

RECURSIVE Concat(_)
Concat(ss) == IF ss = <<>> THEN <<>> ELSE Head(ss) \o Concat(Tail(ss))

\* the ParsedText values one OCR pass is run on
PlateTexts == {Concat(ts) : ts \in SeqsUpTo(PlateTokens, MaxTokens)}

\* what the elements holding a pound sign can read
PriceTexts ==
    {FeeText, HeroText, SmallText, <<"£", "5", "0", ",", "0", "0", "0", ".", "9", "9">>, <<"£", "5", "0", ",", "0", "0", "1">>, <<"£", "9", "9", ".", "9", "9">>,
     <<" ", "£", " ", "1", "0", "0", " ">>,
     <<"f", "r", "o", "m", " ", "£", "9", ",", "0", "0", "0", " ", "a", " ", "m", "o", "n", "t", "h", " ", "w", "h", "e", "n", " ", "y", "o", "u", " ", "s", "e", "l", "l", " ", "y", "o", "u", "r", " ", "c", "a", "r", " ", "w", "i", "t", "h", " ", "u", "s">>}

\* the most elements holding a pound sign on one page
MaxFragments == 3

PriceFragments == SeqsUpTo(PriceTexts, MaxFragments)

InitCalls ==
    /\ all_cars = <<>>
    /\ results = <<>>
    /\ pc = "scrape"
    /\ idx = 0
    /\ img = 0
    /\ examined = <<>>
    /\ attempt = 0
    /\ lastOcr = NoOcr
    /\ ocrAllBad = TRUE
    /\ plate = None
    /\ driver = "none"
    /\ vpath = NoPath
    /\ valuationCalls = {}
    /\ ExtractorIdle
    /\ \/ \E t \in PlateTexts :
             call = [fn |-> "ocr_pass", text |-> t, texts |-> <<>>,
                     ret |-> None, returned |-> FALSE]
       \/ \E f \in PriceFragments :
             call = [fn |-> "price", text |-> <<>>, texts |-> f,
                     ret |-> None, returned |-> FALSE]
    /\ RunIdle

\* lines 592-631: the plate of one OCR pass over a non-empty text
PlatePass ==
    /\ call.fn = "ocr_pass"
    /\ ~call.returned
    /\ Truthy(call.text)
    /\ call' = [call EXCEPT !.ret = PlateInText(call.text), !.returned = TRUE]
    /\ UNCHANGED <<pipeVars, extVars, runVars, prog, first, window, scan>>

\* lines 588-590: an empty text ends the pass with None
PlatePassEmpty ==
    /\ call.fn = "ocr_pass"
    /\ ~call.returned
    /\ ~Truthy(call.text)
    /\ call' = [call EXCEPT !.ret = None, !.returned = TRUE]
    /\ UNCHANGED <<pipeVars, extVars, runVars, prog, first, window, scan>>

\* lines 884-904: the valuation read off the elements' texts
PriceResolve ==
    /\ call.fn = "price"
    /\ ~call.returned
    /\ call' = [call EXCEPT !.ret = ResolvePrice(call.texts), !.returned = TRUE]
    /\ UNCHANGED <<pipeVars, extVars, runVars, prog, first, window, scan>>

NextCalls == PlatePass \/ PlatePassEmpty \/ PriceResolve

SpecCalls == InitCalls /\ [][NextCalls]_vars

-----------------------------------------------------------------------------
(* process_cars as a whole (lines 916-988): PistonHeads, then AutoTrader,    *)
(* then the loop over what they gave                                        *)

\* the pages behind the two URLs of a run
RunPages ==
    [ph |-> {<<>>,
             <<PHElem("article", <<PHText.ford>>, NoAnchor, PHText.low, NoNodes, PHImgs.two,
                      PHText.details)>>,
             <<PHElem("article", <<PHText.ford>>, NoAnchor, PHText.low, NoNodes, PHImgs.two,
                      PHText.details),
               PHElem("article", <<PHText.audi>>, NoAnchor, PHText.high, NoNodes, PHImgs.twice,
                      <<>>)>>},
     at |-> {<<>>,
             <<ATElem("li", {all_selectors[1]}, ATText.listing,
                      <<ATText.title, Absent, ATText.title, Absent, Absent>>, ATText.link,
                      DetailPage, FALSE)>>}]

\* the calls of process_cars: either URL may be left out, max_cars_per_site is
\* None (0) or 1
RunJobs ==
    {[pistonheads_url |-> p, autotrader_url |-> a, ph_page |-> pp, at_page |-> ap,
      max_cars_per_site |-> k] :
        p \in BOOLEAN, a \in BOOLEAN, pp \in RunPages.ph, ap \in RunPages.at, k \in {0, 1}}

InitRun ==
    /\ all_cars = <<>>
    /\ results = <<>>
    /\ pc = "scrape"
    /\ idx = 0
    /\ img = 0
    /\ examined = <<>>
    /\ attempt = 0
    /\ lastOcr = NoOcr
    /\ ocrAllBad = TRUE
    /\ plate = None
    /\ driver = "none"
    /\ vpath = NoPath
    /\ valuationCalls = {}
    /\ ExtractorIdle
    /\ call = NoCall
    /\ prog = NoProg
    /\ first = NoFirst
    /\ window = "none"
    /\ scan = NoScan
    /\ job \in RunJobs
    /\ reach = "pending"
    /\ scraped = <<>>

\* if autotrader_url, but only once PistonHeads has given something
ScrapesAutoTrader_OnlyAfterRecords(j, so_far) == j.autotrader_url /\ so_far # <<>>

\* line 931: if autotrader_url
ScrapesAutoTrader(j, so_far) == j.autotrader_url

\* an extend that puts the new records in front
Extend_InFront(all, more) == more \o all

\* all_cars.extend(...) (lines 930, 934)
Extend(all, more) == all \o more

\* lines 927-929: ph_cars[:max_cars_per_site] when both are truthy
CutPerSite(ph_cars, max_cars_per_site) ==
    IF max_cars_per_site # 0 /\ ph_cars # <<>> THEN Take(ph_cars, max_cars_per_site)
    ELSE ph_cars

\* scrape_autotrader(autotrader_url, max_cars=max_cars_per_site) is entered
EnterAutoTrader ==
    /\ site' = "AutoTrader"
    /\ step' = "start"
    /\ page' = job.at_page
    /\ failing' = {}
    /\ max_cars' = job.max_cars_per_site
    /\ reach' = "pending"

\* the scraping is over: 'if not all_cars' comes next
ScrapingOver ==
    /\ site' = "none"
    /\ step' = "idle"
    /\ page' = <<>>
    /\ failing' = {}
    /\ max_cars' = 0
    /\ reach' = "pending"
    /\ pc' = "start"

\* lines 924-932 when pistonheads_url is given or not
StartRun ==
    /\ pc = "scrape"
    /\ prog.stage \in {"none", "run"}
    /\ site = "none"
    /\ step = "idle"
    /\ IF job.pistonheads_url
       THEN /\ site' = "PistonHeads"
            /\ step' = "start"
            /\ page' = job.ph_page
            /\ failing' = {}
            /\ max_cars' = 0
            /\ reach' = "pending"
            /\ pc' = pc
       ELSE IF ScrapesAutoTrader(job, all_cars)
       THEN EnterAutoTrader /\ pc' = pc
       ELSE ScrapingOver
    /\ UNCHANGED <<all_cars, results, idx, img, examined, attempt, lastOcr, ocrAllBad, plate,
                   driver, vpath, valuationCalls>>
    /\ UNCHANGED <<listings, li, cars, seen_titles, taken, browser>>
    /\ UNCHANGED <<job, scraped>>
    /\ UNCHANGED <<sideVars, window, scan>>

\* lines 927-932: what scrape_pistonheads returned is cut and added to all_cars
AfterPistonHeads ==
    /\ pc = "scrape"
    /\ job # NoJob
    /\ site = "PistonHeads"
    /\ step = "returned"
    /\ LET ph_cars == CutPerSite(cars, job.max_cars_per_site) IN
       /\ all_cars' = Extend(all_cars, ph_cars)
       /\ scraped' = Append(scraped, [site |-> site, reach |-> reach, cars |-> ph_cars])
       /\ IF ScrapesAutoTrader(job, Extend(all_cars, ph_cars))
          THEN EnterAutoTrader /\ pc' = pc
          ELSE ScrapingOver
    /\ UNCHANGED <<results, idx, img, examined, attempt, lastOcr, ocrAllBad, plate,
                   driver, vpath, valuationCalls>>
    /\ UNCHANGED <<listings, li, cars, seen_titles, taken, browser>>
    /\ UNCHANGED job
    /\ UNCHANGED <<sideVars, window, scan>>

\* lines 932-934: what scrape_autotrader returned is added to all_cars
AfterAutoTrader ==
    /\ pc = "scrape"
    /\ job # NoJob
    /\ site = "AutoTrader"
    /\ step = "returned"
    /\ all_cars' = Extend(all_cars, cars)
    /\ scraped' = Append(scraped, [site |-> site, reach |-> reach, cars |-> cars])
    /\ ScrapingOver
    /\ UNCHANGED <<results, idx, img, examined, attempt, lastOcr, ocrAllBad, plate,
                   driver, vpath, valuationCalls>>
    /\ UNCHANGED <<listings, li, cars, seen_titles, taken, browser>>
    /\ UNCHANGED job
    /\ UNCHANGED <<sideVars, window, scan>>

NextRun ==
    \/ StartRun
    \/ AfterPistonHeads
    \/ AfterAutoTrader
    \/ NextExtract
    \/ Next

SpecRun == InitRun /\ [][NextRun]_vars

-----------------------------------------------------------------------------
(* main (lines 1047-1077)                                                   *)

\* the variables main reads from the environment
CredentialNames == {"SENDER_EMAIL", "SENDER_PASSWORD", "RECIPIENT_EMAIL"}

\* the second argument of each os.getenv call of main
EnvDefaults ==
    [SENDER_EMAIL |-> <<"y", "o", "u", "r", "-", "e", "m", "a", "i", "l", "@", "g", "m", "a", "i", "l", ".", "c", "o", "m">>,
     SENDER_PASSWORD |-> <<"x", "x", "x", "x", " ", "x", "x", "x", "x", " ", "x", "x", "x", "x", " ", "x", "x", "x", "x">>,
     RECIPIENT_EMAIL |-> <<"y", "o", "u", "r", "-", "e", "m", "a", "i", "l", "@", "g", "m", "a", "i", "l", ".", "c", "o", "m">>]

\* the values the environment holds for the variables that are set in it
EnvValues ==
    [SENDER_EMAIL |-> <<"b", "o", "t", "@", "x", ".", "u", "k">>,
     SENDER_PASSWORD |-> <<"a", "b", "c", "d", " ", "e", "f", "g", "h">>,
     RECIPIENT_EMAIL |-> <<"m", "e", "@", "x", ".", "u", "k">>]

\* os.getenv(name, default)
GetEnv(env, name) == IF name \in env THEN EnvValues[name] ELSE EnvDefaults[name]

\* MAX_CARS_PER_SITE = 15
MAX_CARS_PER_SITE == 15

\* main passes both URLs and MAX_CARS_PER_SITE
MainJobs ==
    {[pistonheads_url |-> TRUE, autotrader_url |-> TRUE, ph_page |-> pp, at_page |-> ap,
      max_cars_per_site |-> MAX_CARS_PER_SITE] : pp \in RunPages.ph, ap \in RunPages.at}

InitMain ==
    /\ all_cars = <<>>
    /\ results = <<>>
    /\ pc = "scrape"
    /\ idx = 0
    /\ img = 0
    /\ examined = <<>>
    /\ attempt = 0
    /\ lastOcr = NoOcr
    /\ ocrAllBad = TRUE
    /\ plate = None
    /\ driver = "none"
    /\ vpath = NoPath
    /\ valuationCalls = {}
    /\ ExtractorIdle
    /\ call = NoCall
    /\ first = NoFirst
    /\ window = "none"
    /\ scan = NoScan
    /\ job \in MainJobs
    /\ reach = "pending"
    /\ scraped = <<>>
    /\ \E env \in SUBSET CredentialNames : prog = [NoProg EXCEPT !.stage = "start", !.env = env]

\* lines 1057-1067: the credentials are read with their defaults, the bot and
\* the reporter are built, and process_cars is called
MainConfigure ==
    /\ prog.stage = "start"
    /\ prog' = [prog EXCEPT !.stage = "run",
                            !.SENDER_EMAIL = GetEnv(prog.env, "SENDER_EMAIL"),
                            !.SENDER_PASSWORD = GetEnv(prog.env, "SENDER_PASSWORD"),
                            !.RECIPIENT_EMAIL = GetEnv(prog.env, "RECIPIENT_EMAIL")]
    /\ UNCHANGED <<pipeVars, extVars, runVars, call, first, window, scan>>

\* lines 1074-1077, 66-221: save_to_csv and send_report, which catches what the
\* mail server refuses and returns False
MainReport ==
    /\ prog.stage = "run"
    /\ pc = "done"
    /\ \E sent \in BOOLEAN : prog' = [prog EXCEPT !.stage = "completed", !.sent = sent]
    /\ UNCHANGED <<pipeVars, extVars, runVars, call, first, window, scan>>

NextMain ==
    \/ MainConfigure
    \/ MainReport
    \/ NextRun

SpecMain == InitMain /\ [][NextMain]_vars

-----------------------------------------------------------------------------
(* An extractor called a second time on the page it was called on           *)

\* the calls that are made twice
RerunInputs == {input \in ExtractorInputs : Len(input[2]) < MaxElements}

InitRerun ==
    /\ all_cars = <<>>
    /\ results = <<>>
    /\ pc = "scrape"
    /\ idx = 0
    /\ img = 0
    /\ examined = <<>>
    /\ attempt = 0
    /\ lastOcr = NoOcr
    /\ ocrAllBad = TRUE
    /\ plate = None
    /\ driver = "none"
    /\ vpath = NoPath
    /\ valuationCalls = {}
    /\ \E input \in RerunInputs :
          /\ site = input[1]
          /\ page = input[2]
          /\ failing = input[3]
          /\ max_cars = input[4]
    /\ step = "start"
    /\ listings = <<>>
    /\ li = 0
    /\ cars = <<>>
    /\ seen_titles = {}
    /\ taken = <<>>
    /\ browser = "none"
    /\ call = NoCall
    /\ RunIdle

\* the same method of the same bot is called again with the same arguments
\* (lines 268, 478): the caller keeps what the first call returned
CallAgain ==
    /\ step = "returned"
    /\ ~first.done
    /\ first' = [done |-> TRUE, reach |-> reach, cars |-> cars]
    /\ step' = "start"
    /\ reach' = "pending"
    /\ UNCHANGED <<site, page, failing, max_cars, listings, li, cars, seen_titles, taken,
                   browser>>
    /\ UNCHANGED pipeVars
    /\ UNCHANGED <<job, scraped, call, prog, window, scan>>

NextRerun == CallAgain \/ NextExtract

SpecRerun == InitRerun /\ [][NextRerun]_vars

-----------------------------------------------------------------------------
(* Properties of process_cars, detect_license_plate and get_valuation       *)

PlateDetected(c) == c.detected_plate # NotDetected /\ c.detected_plate # Absent
MileagePresent(c) == Truthy(Get(c.mileage))

IsPlate(p) ==
    /\ Len(p) >= MinPlateLen
    /\ p \in {PlateInText(t) : t \in OcrTexts}

IsAmount(v) == \E t \in ResultPages : Truthy(ResolvePrice(t)) /\ v = ResolvePrice(t)

\* C1: for every processed listing, get_valuation is called if and only if a
\* plate was detected and the record has a (non-empty) mileage; when either is
\* missing the valuation is "No plate/mileage" and no call is made and no
\* browser session is started for that listing.
C1_ValuationIffPlateAndMileage ==
    /\ \A i \in 1..Len(results) :
          LET c == results[i] IN
          /\ (i \in valuationCalls) <=> (PlateDetected(c) /\ MileagePresent(c))
          /\ ~(PlateDetected(c) /\ MileagePresent(c))
                => c.webuyanycar_valuation = NoPlateMileage
    /\ pc = "append" /\ ~(PlateDetected(car) /\ MileagePresent(car))
          => /\ idx \notin valuationCalls
             /\ driver = "none"
             /\ vpath = NoPath
             /\ car.webuyanycar_valuation = NoPlateMileage

\* a valued listing, then the same listing without its mileage
C1_Witness ==
    /\ Len(results) = 2
    /\ 1 \in valuationCalls
    /\ results[1].webuyanycar_valuation = HeroText
    /\ results[2].detected_plate = results[1].detected_plate
    /\ PlateDetected(results[2])
    /\ results[2].mileage = Absent
    /\ results[2].webuyanycar_valuation = NoPlateMileage
    /\ 2 \notin valuationCalls

\* C2: when an exception occurs anywhere in the valuation path of a listing
\* (browser start, page load, form interaction, price extraction) the record's
\* valuation is "Error"; "Failed" is stored only when the path ran without an
\* exception and yielded no amount.
C2_ExceptionMarksError ==
    pc = "append" /\ idx \in valuationCalls
       => /\ vpath.kind \in ExceptionPaths => car.webuyanycar_valuation = Error
          /\ car.webuyanycar_valuation = Failed => vpath.kind \notin ExceptionPaths

\* C7: every run ends with every scraped listing appended, its detected_plate a
\* plate or "Not detected" and its valuation an amount, "Failed", "Error" or
\* "No plate/mileage", whatever the OCR calls and valuation calls came back with.
C7_EveryListingProcessed ==
    <>( /\ pc = "done"
        /\ Len(results) = Len(all_cars)
        /\ \A i \in 1..Len(results) :
              /\ results[i] = all_cars[i]
              /\ results[i].detected_plate = NotDetected \/ IsPlate(results[i].detected_plate)
              /\ \/ results[i].webuyanycar_valuation \in {Failed, Error, NoPlateMileage}
                 \/ IsAmount(results[i].webuyanycar_valuation) )

\* a listing whose valuation failed, followed by a listing that was valued
C7_Witness ==
    /\ pc = "done"
    /\ Len(results) = 2
    /\ results[1].webuyanycar_valuation = Failed
    /\ results[2].webuyanycar_valuation = HeroText

\* C8: detect_license_plate returns None, and never raises, when every OCR
\* attempt for the image errored (error-flagged response, request exception) or
\* returned text in which no plate pattern matches.
C8_NoneWhenAllAttemptsBad ==
    /\ pc # "aborted"
    /\ pc = "images" /\ img > 0 /\ attempt > 0 /\ ocrAllBad => plate = None

\* three attempts, the last one a failed request
C8_Witness ==
    /\ pc = "images"
    /\ img = 1
    /\ attempt = max_retries
    /\ ocrAllBad
    /\ lastOcr.kind = "request_exception"
    /\ plate = None

\* an OCR call that is not the first for its image
IsRepeatedOcrCall == pc = "ocr" /\ attempt >= 1 /\ attempt' = attempt + 1

\* C9 as stated: an OCR call is repeated for an image only after an
\* error-flagged response or a failed request.
C9_RetryOnlyAfterError ==
    [][IsRepeatedOcrCall => lastOcr.kind \in {"request_exception", "error_flag"}]_vars

\* C9: an OCR call is repeated for an image only after an error-flagged
\* response, a failed request, or a response whose non-empty text holds no
\* plate; a response with a plate in its text, or with empty text, is never
\* followed by another call for the same image.
C9_RetryAfterErrorOrNoPlate ==
    [][IsRepeatedOcrCall =>
          \/ lastOcr.kind \in {"request_exception", "error_flag"}
          \/ /\ lastOcr.kind = "ok"
             /\ Truthy(lastOcr.text)
             /\ PlateInText(lastOcr.text) = None]_vars

\* a repeated call that gave text without a plate, and the loop goes on
C9_Witness ==
    /\ pc = "ocr"
    /\ attempt = 2
    /\ lastOcr.kind = "ok"
    /\ Truthy(lastOcr.text)
    /\ PlateInText(lastOcr.text) = None

LastExamined == ImagesToCheck(car)[examined[Len(examined)]]

\* an SVG: an inline data URI, or a file addressed by URL
IsVectorImage(url) ==
    ContainsStr(url, <<"s", "v", "g", "+", "x", "m", "l">>) \/ ContainsStr(url, <<".", "s", "v", "g">>)

\* the parts of C10 that do not depend on what counts as a vector image: at
\* most max_retries calls per image, the first ImageCap images in order, and
\* nothing examined once an image has yielded a plate
OcrCallsBounded ==
    /\ attempt <= max_retries
    /\ Len(examined) <= ImageCap
    /\ \A k \in 1..Len(examined) : examined[k] = k
    /\ pc \in {"images", "ocr"} /\ Truthy(plate)
          => pc = "images" /\ Len(examined) = img /\ attempt >= 1

NoCallAfterPlate ==
    [][Truthy(plate) /\ idx' = idx /\ pc # "append"
          => examined' = examined /\ attempt' = attempt]_vars

\* C10 as stated: a vector (svg) image causes no OCR call, every other image
\* at most max_attempts, at most the first 4 images are examined in order, and
\* none after the first that yields a plate.
C10_VectorImageNoOcr ==
    /\ [](pc \in {"images", "ocr"} /\ examined # <<>> /\ IsVectorImage(LastExamined)
             => attempt = 0 /\ pc = "images")
    /\ []OcrCallsBounded
    /\ NoCallAfterPlate

\* C10: an image whose URL contains "svg+xml" causes no OCR call, every other
\* image at most max_retries (3) calls, at most the first 4 images of a
\* listing are examined, in order, and no image is examined after the first
\* that yields a plate.
C10_SvgXmlUrlNoOcr ==
    /\ [](pc \in {"images", "ocr"} /\ examined # <<>>
             /\ ContainsStr(LastExamined, <<"s", "v", "g", "+", "x", "m", "l">>)
             => attempt = 0 /\ pc = "images")
    /\ []OcrCallsBounded
    /\ NoCallAfterPlate

\* four images examined in order: an inline SVG skipped, and a plate read off
\* the fourth
C10_Witness ==
    /\ pc = "images"
    /\ Len(car.images) = ImageCap
    /\ car.images[1] = InlineSvgUrl
    /\ examined = <<1, 2, 3, 4>>
    /\ img = ImageCap
    /\ Truthy(plate)

-----------------------------------------------------------------------------
(* Properties of the listing extractors                                     *)

\* what the running extractor reads off listings[m]
Candidate(m) ==
    IF site = "PistonHeads" THEN PHCandidate(page[listings[m]])
    ELSE ATCandidate(page[listings[m]])

\* the extraction of listings[m] runs into an error: the element cannot be
\* read, or the window for its detail page cannot be opened
Fails(m) ==
    /\ site = "AutoTrader"
    /\ \/ page[listings[m]].broken
       \/ FetchesImages(Candidate(m)) /\ ~page[listings[m]].detail.opens

\* listings[m] resolves to a record that passes the extractor's test
Accepted(m) ==
    /\ Candidate(m).kind = "car"
    /\ IF site = "PistonHeads" THEN PHAccepts(Candidate(m).car)
       ELSE ATAccepts(Candidate(m).car)

\* lower case, leading and trailing whitespace removed
TrimmedLower(s) == Lower(Strip(s))

RECURSIVE CollapseWhitespace(_)
\* every run of whitespace becomes one space
CollapseWhitespace(s) ==
    IF s = <<>> THEN <<>>
    ELSE IF Head(s) \in Whitespace
    THEN IF Len(s) > 1 /\ s[2] \in Whitespace THEN CollapseWhitespace(Tail(s))
         ELSE <<" ">> \o CollapseWhitespace(Tail(s))
    ELSE <<Head(s)>> \o CollapseWhitespace(Tail(s))

\* lower case, whitespace runs collapsed, leading and trailing whitespace removed
WhitespaceNormalized(s) == Lower(Strip(CollapseWhitespace(s)))

\* s under the normalisation named: whitespace runs collapsed, or trimmed only
NormBy(norm, s) == IF norm = "collapsed" THEN WhitespaceNormalized(s) ELSE TrimmedLower(s)

SamePair(a, b, norm) ==
    /\ NormBy(norm, a.title) = NormBy(norm, b.title)
    /\ NormBy(norm, Get(a.price)) = NormBy(norm, Get(b.price))

NoTwoAlike(norm) ==
    \A i, j \in 1..Len(cars) : i < j => ~SamePair(cars[i], cars[j], norm)

\* every record is the first accepted candidate with its pair, and the records
\* stand in the order of those candidates
FirstOccurrenceOrder(norm) ==
    /\ Len(taken) = Len(cars)
    /\ \A k \in 1..Len(cars) :
          /\ taken[k] \in 1..li
          /\ cars[k] = Candidate(taken[k]).car
          /\ k > 1 => taken[k - 1] < taken[k]
          /\ \A m \in 1..(taken[k] - 1) :
                Accepted(m) => ~SamePair(Candidate(m).car, cars[k], norm)

\* C3 as stated: within one source's scrape no two records of the output have
\* the same (title, price) after case folding and whitespace normalisation,
\* and the records stand in the order of their first occurrence among the
\* candidates.  Whitespace normalisation collapses inner runs too.
C3_NoDuplicateNormalizedPair ==
    NoTwoAlike("collapsed") /\ FirstOccurrenceOrder("collapsed")

\* C3 amended: no two records of the output have the same (title, price) after
\* lower-casing and removing leading and trailing whitespace, and the records
\* stand in the order of their first occurrence among the accepted candidates.
C3_NoDuplicateTrimmedLowerPair ==
    NoTwoAlike("trimmed") /\ FirstOccurrenceOrder("trimmed")

\* the scrape is over, its third candidate repeated the pair of the first in
\* another spelling and was dropped, and the two records kept are candidates 1
\* and 2
C3_Witness ==
    /\ step = "returned"
    /\ Len(listings) = 3
    /\ li = 3
    /\ Accepted(1) /\ Accepted(3)
    /\ Candidate(1).car.title # Candidate(3).car.title
    /\ SamePair(Candidate(1).car, Candidate(3).car, "trimmed")
    /\ taken = <<1, 2>>

\* C4: for every source, two accepted candidates with the same title and
\* different prices are both in the output of the finished scrape.
C4_SameTitleOtherPriceBothKept ==
    step = "returned" =>
        \A i, j \in 1..li :
            (/\ i < j
             /\ Accepted(i)
             /\ Accepted(j)
             /\ TrimmedLower(Candidate(i).car.title) = TrimmedLower(Candidate(j).car.title)
             /\ TrimmedLower(Candidate(i).car.price) # TrimmedLower(Candidate(j).car.price))
            => \E a, b \in 1..Len(cars) :
                  /\ SamePair(cars[a], Candidate(i).car, "trimmed")
                  /\ SamePair(cars[b], Candidate(j).car, "trimmed")

\* the selectors that did not raise
Usable == {k \in 1..Len(all_selectors) : all_selectors[k] \notin failing}

ResultOf(k) == FindElements(page, all_selectors[k])

\* C5: after the selector strategies have run, the adopted listings are the
\* result of one strategy that did not raise, of the greatest size among them
\* and the earliest of that size; they are empty when no strategy found
\* anything.  They are never put together from several results.
C5_AdoptsLargestStrategy ==
    step = "broaden" =>
        IF \A k \in Usable : ResultOf(k) = <<>>
        THEN listings = <<>>
        ELSE \E k \in Usable :
                /\ listings = ResultOf(k)
                /\ \A j \in Usable :
                      /\ Len(ResultOf(j)) <= Len(ResultOf(k))
                      /\ Len(ResultOf(j)) = Len(ResultOf(k)) => k <= j

\* the strategies have run; a selector that raised would have found more than
\* was adopted, two later ones tie with different results, and the earlier of
\* the two was adopted
C5_Witness ==
    /\ step = "broaden"
    /\ \E f \in 1..Len(all_selectors) :
          all_selectors[f] \in failing /\ Len(ResultOf(f)) > Len(listings)
    /\ \E j, k \in Usable :
          /\ j < k
          /\ ResultOf(j) # ResultOf(k)
          /\ Len(ResultOf(j)) = Len(ResultOf(k))
          /\ listings = ResultOf(j)
          /\ listings # <<>>

\* C6: every record an extractor has emitted has a non-empty title and a
\* non-empty price.
C6_RecordsHaveTitleAndPrice ==
    \A k \in 1..Len(cars) :
        Truthy(Get(cars[k].title)) /\ Truthy(Get(cars[k].price))

\* the AutoTrader scrape is over, it emitted a record, and one of its
\* candidates had a title and no price
C6_Witness ==
    /\ site = "AutoTrader"
    /\ step = "returned"
    /\ Len(cars) >= 1
    /\ \E m \in 1..li :
          /\ Candidate(m).kind = "car"
          /\ Truthy(Candidate(m).car.title)
          /\ ~Truthy(Get(Candidate(m).car.price))

-----------------------------------------------------------------------------
(* Properties of one OCR pass and of one price extraction                   *)

\* the cleaned matches of 6 or more characters, patterns in their listed
\* order and the matches of one pattern in text order
Candidates(parsed_text) == plates_found(NormalizeOcrText(parsed_text))

OnlyUpperAndDigits(p) == \A i \in 1..Len(p) : p[i] \in UpperLetters \cup Digits

PassReturned == call.fn = "ocr_pass" /\ call.returned /\ Truthy(call.text)

\* C11, first half: the plate of an OCR pass is the first candidate of at
\* least 6 characters, patterns in listed order and matches in text order,
\* and None when there is no such candidate.
C11_FirstCandidateReturned ==
    PassReturned =>
        LET c == Candidates(call.text) IN
        IF c = <<>> THEN call.ret = None
        ELSE call.ret = c[1] /\ Len(call.ret) >= MinPlateLen

\* C11: the plate of an OCR pass is the first candidate and consists only of
\* upper-case letters and digits, for every OCR text.
C11_PlateOnlyUpperAndDigits ==
    (PassReturned /\ call.ret # None) =>
        /\ call.ret = Candidates(call.text)[1]
        /\ Len(call.ret) >= MinPlateLen
        /\ OnlyUpperAndDigits(call.ret)


\* C12: an OCR pass over "AB12 CDE", "AB-12-CDE" or "A123 BCD" returns
\* AB12CDE, AB12CDE and A123BCD (6 characters or more, no separators), and a
\* pass over the text "AB12CD" returns no plate.
C12_PlateShapes ==
    PassReturned =>
        /\ call.text = <<"A", "B", "1", "2", " ", "C", "D", "E">> => call.ret = <<"A", "B", "1", "2", "C", "D", "E">>
        /\ call.text = <<"A", "B", "-", "1", "2", "-", "C", "D", "E">> => call.ret = <<"A", "B", "1", "2", "C", "D", "E">>
        /\ call.text = <<"A", "1", "2", "3", " ", "B", "C", "D">> => call.ret = <<"A", "1", "2", "3", "B", "C", "D">>
        /\ call.text = <<"A", "B", "1", "2", "C", "D">> => call.ret = None

\* the pass over "AB-12-CDE" has returned a plate of 7 characters
C12_Witness ==
    /\ PassReturned
    /\ call.text = <<"A", "B", "-", "1", "2", "-", "C", "D", "E">>
    /\ Len(call.ret) = 7


IsDigit(c) == c \in Digits

\* the whole pounds of an amount as written: its digits before the decimal point
WholePounds(amount) == IntOfDigits(SelectSeq(BeforeDot(amount), IsDigit), 0)

\* the amounts written in the fragments of fewer than 50 characters whose
\* whole pounds lie in [100, 50000]
SurvivingAmounts(texts) ==
    {m \in UNION {{a : a \in {FindAll(price_pattern, Strip(texts[i]))[k] :
                                 k \in 1..Len(FindAll(price_pattern, Strip(texts[i])))}} :
                    i \in {n \in 1..Len(texts) : Len(Strip(texts[n])) < MaxPriceTextLen}} :
        MinPrice <= WholePounds(m) /\ WholePounds(m) <= MaxPrice}

PriceReturned == call.fn = "price" /\ call.returned

\* C13: the price extraction returns an amount of greatest whole-pound value
\* among the amounts of [100, 50000] found in fragments of fewer than 50
\* characters, never an amount outside that range, and None when no amount
\* survives; the fragments "£250 fee", "£8,450", "£12" give £8,450.
C13_MaxAmountInRange ==
    PriceReturned =>
        LET s == SurvivingAmounts(call.texts) IN
        /\ s = {} => call.ret = None
        /\ s # {} =>
              /\ call.ret \in s
              /\ \A m \in s : WholePounds(m) <= WholePounds(call.ret)
        /\ call.ret # None =>
              MinPrice <= WholePounds(call.ret) /\ WholePounds(call.ret) <= MaxPrice
        /\ call.texts = <<FeeText, HeroText, SmallText>> => call.ret = HeroText

\* the fragments "£250 fee", "£8,450", "£12" have been resolved to an amount
C13_Witness ==
    /\ PriceReturned
    /\ call.texts = <<FeeText, HeroText, SmallText>>
    /\ WholePounds(call.ret) = 8450


-----------------------------------------------------------------------------
(* Properties of a whole run of process_cars                                *)

\* scrape_autotrader is between its entry and its return
InAutoTrader == site = "AutoTrader" /\ step \in {"start", "select", "broaden", "loop"}

\* C14: the browser session of scrape_autotrader is open only while that call
\* is under way and the session of get_valuation only while that call is under
\* way, whatever path either takes out, so that two sessions are never open at
\* once in a run.
C14_SessionsClosedOnReturn ==
    /\ browser = "open" => InAutoTrader
    /\ driver = "open" => pc = "in_valuation"
    /\ ~(browser = "open" /\ driver = "open")

\* a valuation session is open in a run whose AutoTrader scrape had a session
C14_Witness ==
    /\ job # NoJob
    /\ driver = "open"
    /\ browser = "closed"
    /\ \E i \in 1..Len(results) : results[i].webuyanycar_valuation = Failed


\* a record as it was scraped, before the loop of process_cars wrote to it
AsScraped(c) == [c EXCEPT !.detected_plate = Absent, !.webuyanycar_valuation = Absent]

RECURSIVE HandedOver(_)
\* the records the extractor calls handed over, in the order of the calls
HandedOver(calls) ==
    IF calls = <<>> THEN <<>> ELSE Head(calls).cars \o HandedOver(Tail(calls))

WasScraped(s) == \E i \in 1..Len(scraped) : scraped[i].site = s

Enriched(c) == c.detected_plate # Absent /\ c.webuyanycar_valuation # Absent

\* C15: a source whose page could not be fetched or loaded hands over no
\* records; each source whose URL is given is scraped whatever became of the
\* other one; the records of all sources go through the loop, and the run ends
\* with an empty result only when no source handed over a record.
C15_UnreachableSourceAlone ==
    /\ \A i \in 1..Len(scraped) : scraped[i].reach = "unreachable" => scraped[i].cars = <<>>
    /\ (job # NoJob /\ pc # "scrape") =>
          /\ job.pistonheads_url => WasScraped("PistonHeads")
          /\ job.autotrader_url => WasScraped("AutoTrader")
          /\ [i \in 1..Len(all_cars) |-> AsScraped(all_cars[i])] = HandedOver(scraped)
    /\ (job # NoJob /\ pc = "done") =>
          /\ Len(results) = Len(all_cars)
          /\ \A i \in 1..Len(results) :
                AsScraped(results[i]) = HandedOver(scraped)[i] /\ Enriched(results[i])
          /\ results = <<>> => HandedOver(scraped) = <<>>

\* PistonHeads could not be fetched, AutoTrader was scraped and its record has
\* been through the loop
C15_Witness ==
    /\ pc = "done"
    /\ Len(scraped) = 2
    /\ scraped[1].site = "PistonHeads" /\ scraped[1].reach = "unreachable"
    /\ scraped[2].site = "AutoTrader" /\ scraped[2].reach = "reached"
    /\ results # <<>>
    /\ \A i \in 1..Len(results) : results[i].source = "AutoTrader" /\ Enriched(results[i])


-----------------------------------------------------------------------------
(* Properties of main                                                       *)

\* the credentials of the report sender are both in the environment
SenderCredentialsSet == {"SENDER_EMAIL", "SENDER_PASSWORD"} \subseteq prog.env

\* no extractor has been entered, no OCR call and no valuation call made
NothingBegun ==
    /\ site = "none" /\ step = "idle"
    /\ scraped = <<>>
    /\ all_cars = <<>>
    /\ attempt = 0 /\ examined = <<>>
    /\ valuationCalls = {}

\* C16: when a credential of the report sender is absent from the
\* environment, main begins no scraping, OCR or valuation step.
C16_FailsFastWithoutCredentials ==
    (prog.stage # "none" /\ ~SenderCredentialsSet) => NothingBegun


-----------------------------------------------------------------------------
(* Properties of the images of the emitted records                          *)

NoRepeat(s) == \A i, j \in 1..Len(s) : s[i] = s[j] => i = j

\* the URL has "placeholder", "logo" or "icon" in it
Unwanted(url) ==
    ContainsAny(url, {<<"p", "l", "a", "c", "e", "h", "o", "l", "d", "e", "r">>, <<"l", "o", "g", "o">>, <<"i", "c", "o", "n">>})

ImagesClean(c) ==
    /\ NoRepeat(c.images)
    /\ \A i \in 1..Len(c.images) : ~Unwanted(c.images[i])
    /\ Len(c.images) <= ImageCap

\* C17: the images of every record emitted by either extractor hold no URL
\* twice, no URL with "placeholder", "logo" or "icon" in it, and at most 4
\* URLs.
C17_ImagesCleanAndCapped ==
    \A k \in 1..Len(cars) : ImagesClean(cars[k])

\* C17 for scrape_autotrader alone, whose images come from
\* extract_images_from_detail_page
C17_AutoTraderImagesClean ==
    site = "AutoTrader" => \A k \in 1..Len(cars) : ImagesClean(cars[k])


-----------------------------------------------------------------------------
(* Properties of a repeated extractor call                                  *)

SecondCallReturned == first.done /\ step = "returned"

\* C18: a second call of an extractor on the same page with the same
\* arguments, reaching the page as the first did, returns the same records in
\* the same order: nothing the first call left behind changes the second.
C18_RerunGivesSameRecords ==
    (SecondCallReturned /\ reach = first.reach) => cars = first.cars

\* both calls read the page and returned records, having passed over one of
\* the listings
C18_Witness ==
    /\ SecondCallReturned
    /\ reach = "reached" /\ first.reach = "reached"
    /\ cars # <<>>
    /\ Len(cars) < li
    /\ seen_titles # {}


-----------------------------------------------------------------------------
(* Properties of the AutoTrader title                                       *)

\* the element the k-th emitted record was read from
SourceElem(k) == page[listings[taken[k]]]

\* the sub-selectors that found something in the element
Matched(elem) == {i \in 1..Len(title_selectors) : elem.subs[i] # Absent}

\* the matched sub-selectors whose text is longer than 10 characters
LongEnough(elem) == {i \in Matched(elem) : Len(Strip(elem.subs[i])) > MinTitleLen}

\* C20: in scrape_autotrader a title from the sub-selectors is the text of the
\* first sub-selector whose text is longer than 10 characters, and the text of
\* a sub-selector that is 10 characters or shorter is never the title of an
\* emitted record.
C20_SubSelectorTitleLongerThanTen ==
    site = "AutoTrader" =>
        \A k \in 1..Len(cars) :
            LET elem == SourceElem(k) IN
            /\ LongEnough(elem) # {} =>
                  cars[k].title =
                      Strip(elem.subs[CHOOSE i \in LongEnough(elem) :
                                         \A j \in LongEnough(elem) : i <= j])
            /\ \A i \in Matched(elem) \ LongEnough(elem) :
                  cars[k].title # Strip(elem.subs[i])


-----------------------------------------------------------------------------
(* Properties of the listing loops under errors                             *)

KeyOf(c) == IF site = "PistonHeads" THEN PHKey(c) ELSE ATKey(c)

RECURSIVE EmittedFrom(_, _)
\* the records a batch gives when each of its listings ms is read without
\* error, seen being the keys of the records before them
EmittedFrom(ms, seen) ==
    IF ms = <<>> THEN <<>>
    ELSE IF Accepted(Head(ms)) /\ KeyOf(Candidate(Head(ms)).car) \notin seen
    THEN <<Candidate(Head(ms)).car>>
         \o EmittedFrom(Tail(ms), seen \cup {KeyOf(Candidate(Head(ms)).car)})
    ELSE EmittedFrom(Tail(ms), seen)

RECURSIVE OthersFrom(_)
\* the listings from m on whose extraction runs into no error of its own
OthersFrom(m) ==
    IF m > Len(listings) THEN <<>>
    ELSE (IF Fails(m) THEN <<>> ELSE <<m>>) \o OthersFrom(m + 1)

RECURSIVE RecordsOfOthers(_)
\* the emitted records from k on that were read from those listings
RecordsOfOthers(k) ==
    IF k > Len(cars) THEN <<>>
    ELSE (IF Fails(taken[k]) THEN <<>> ELSE <<cars[k]>>) \o RecordsOfOthers(k + 1)

LoopCompleted == step = "returned" /\ reach = "reached" /\ li = Len(listings)

\* C19: when the loop over a batch of listings is over, the records of the
\* listings whose extraction ran into no error are the records the batch
\* gives without the failing listings in it.
C19_ErrorInOneCandidateIsolated ==
    LoopCompleted => RecordsOfOthers(1) = EmittedFrom(OthersFrom(1), {})

\* C19 for the errors raised by reading an element: a batch in which every
\* detail window opens
C19_UnreadableElementIsolated ==
    (/\ LoopCompleted
     /\ site = "AutoTrader" => \A m \in 1..Len(listings) : page[listings[m]].detail.opens)
        => /\ RecordsOfOthers(1) = EmittedFrom(OthersFrom(1), {})
           /\ \A k \in 1..Len(cars) : ~Fails(taken[k])


-----------------------------------------------------------------------------
(* Properties of the broader search of scrape_autotrader                    *)

\* no selector that could be run found more than one element
EveryStrategyAtMostOne ==
    \A k \in 1..Len(all_selectors) :
        all_selectors[k] \notin failing => Len(FindElements(page, all_selectors[k])) <= 1

\* the selector loop and the broader search are behind the call, and the
\* search, if entered, was not cut short by an element that could not be read
ScanSettled ==
    /\ site = "AutoTrader"
    /\ reach = "reached"
    /\ step \in {"loop", "returned"}
    /\ ~(EveryStrategyAtMostOne /\ ScanRaises(page))

DomainKeywords == {<<"m", "i", "l", "e", "s">>, <<"m", "a", "n", "u", "a", "l">>, <<"a", "u", "t", "o", "m", "a", "t", "i", "c">>, <<"p", "e", "t", "r", "o", "l">>, <<"d", "i", "e", "s", "e", "l">>}

ChromePhrases == {<<"p", "o", "s", "t", "c", "o", "d", "e">>, <<"s", "e", "a", "r", "c", "h", " ", "r", "a", "d", "i", "u", "s">>, <<"p", "r", "i", "c", "e", " ", "r", "a", "n", "g", "e">>}

\* the phrases the search itself excludes
ScanExclusions == {<<"m", "a", "k", "e", " ", "a", "n", "d", " ", "m", "o", "d", "e", "l">>, <<"p", "o", "s", "t", "c", "o", "d", "e">>, <<"s", "e", "a", "r", "c", "h", " ", "r", "a", "d", "i", "u", "s">>}

\* the text has the pound sign and a domain keyword and none of the phrases
PassesScan(text, phrases) ==
    /\ ContainsStr(text, <<"£">>)
    /\ ContainsAny(Lower(text), DomainKeywords)
    /\ ~ContainsAny(Lower(text), phrases)

BroadTagPositions == {i \in 1..Len(page) : page[i].tag \in {"article", "section"}}

FoundByScan == {scan.found[k] : k \in 1..Len(scan.found)}

\* C21: the broader search is entered exactly when every selector strategy
\* found at most one element, and an article or section element is among its
\* candidates exactly when its text has the pound sign, one of the domain
\* keywords, and none of "postcode", "search radius", "price range".
C21_ScanCandidates ==
    ScanSettled =>
        /\ scan.ran <=> EveryStrategyAtMostOne
        /\ scan.ran =>
              \A i \in BroadTagPositions :
                  i \in FoundByScan <=> PassesScan(page[i].text, ChromePhrases)

\* C21 with the phrases the search excludes in place of the three of the claim
C21_ScanCandidatesAsCoded ==
    ScanSettled =>
        /\ scan.ran <=> EveryStrategyAtMostOne
        /\ FoundByScan \subseteq BroadTagPositions
        /\ scan.ran =>
              \A i \in BroadTagPositions :
                  i \in FoundByScan <=> PassesScan(page[i].text, ScanExclusions)


-----------------------------------------------------------------------------
(* Properties of the records under process_cars                             *)

\* what an extractor put into a record
Scraped(c) == <<c.source, c.title, c.price, c.link, c.mileage, c.images>>

\* the fields process_cars writes
Written(c) == <<c.detected_plate, c.webuyanycar_valuation>>

\* nothing has been written to the records the loop has not come to, the
\* records appended are the first records of all_cars, fully written, and the
\* records stand source by source in the order they were extracted in
RecordsInPlace ==
    /\ \A i \in 1..Len(all_cars) : i > idx => Written(all_cars[i]) = <<Absent, Absent>>
    /\ Len(results) <= Len(all_cars)
    /\ \A i \in 1..Len(results) : results[i] = all_cars[i] /\ Enriched(results[i])
    /\ \A i, j \in 1..Len(all_cars) :
          (i < j /\ all_cars[i].source = "AutoTrader") => all_cars[j].source = "AutoTrader"
    /\ pc # "scrape" =>
          [i \in 1..Len(all_cars) |-> AsScraped(all_cars[i])] = HandedOver(scraped)

\* a step leaves what was scraped as it is, writes a field only where nothing
\* was written before, and takes nothing out of all_cars or results
RecordsKept ==
    /\ Len(all_cars') >= Len(all_cars)
    /\ \A i \in 1..Len(all_cars) :
          /\ Scraped(all_cars'[i]) = Scraped(all_cars[i])
          /\ all_cars[i].detected_plate # Absent =>
                all_cars'[i].detected_plate = all_cars[i].detected_plate
          /\ all_cars[i].webuyanycar_valuation # Absent =>
                all_cars'[i].webuyanycar_valuation = all_cars[i].webuyanycar_valuation
    /\ Len(results') >= Len(results)
    /\ \A i \in 1..Len(results) : results'[i] = results[i]

\* C22: process_cars writes detected_plate and the valuation of a record once
\* each and nothing else of it; no record leaves all_cars or the results or
\* changes its place there, and the records of PistonHeads stand before those
\* of AutoTrader, each source in the order of its extraction.
C22_OnlyEnrichmentFieldsWritten ==
    [](RecordsInPlace) /\ [][RecordsKept]_vars

\* the run is over with a PistonHeads record before an AutoTrader record, one
\* of them with a plate and an amount
C22_Witness ==
    /\ job # NoJob
    /\ pc = "done"
    /\ Len(results) >= 2
    /\ results[1].source = "PistonHeads"
    /\ results[Len(results)].source = "AutoTrader"
    /\ \E i \in 1..Len(results) :
          /\ results[i].detected_plate # NotDetected
          /\ results[i].webuyanycar_valuation = HeroText


-----------------------------------------------------------------------------
(* Properties of the window after extract_images_from_detail_page           *)

\* the listings the loop has been through whose link was handed to
\* extract_images_from_detail_page
DetailCalls ==
    {k \in 1..li : FetchesImages(ATRead(page[listings[k]], "main"))}

\* C23: once extract_images_from_detail_page has returned, whether the detail
\* page loaded, the wait timed out or window.open raised, the window with the
\* listings is open and is the driver's current window.
C23_MainWindowKeptAfterDetail ==
    (site = "AutoTrader" /\ step = "loop" /\ DetailCalls # {}) => window = "main"

\* the same where every detail page so far was opened: loaded or timed out
C23_MainWindowKeptWhenOpened ==
    (/\ site = "AutoTrader"
     /\ step = "loop"
     /\ DetailCalls # {}
     /\ \A k \in DetailCalls : page[listings[k]].detail.opens) => window = "main"

=============================================================================
